---------------------------- MODULE Spec2Model ----------------------------
(***************************************************************************)
(* Net worth tracker: the mock-data module of the API server               *)
(* (apps/api/src/lib/mock-data.ts), its web copy, and the handlers of      *)
(* apps/api/src/index.ts that call into it.                                *)
(*                                                                         *)
(* Numbers.  The TypeScript code computes in IEEE doubles.  Here           *)
(*   - currency amounts inside the simulator are integers in cents         *)
(*     (Cent units per currency unit), so that fractional targets and      *)
(*     Math.round are represented;                                         *)
(*   - dimensionless factors (growth, variance, sine values) are integers  *)
(*     in units of 1/Scale;                                                *)
(*   - a Date is [day, ms]: whole days since 1970-01-01 and milliseconds   *)
(*     within the day, which is exact for every millisecond timestamp;     *)
(*   - calendar fields are those of UTC.                                   *)
(* The LCG state is kept as two 16-bit limbs so that the recurrence is     *)
(* exact without leaving 32-bit integer arithmetic.                        *)
(***************************************************************************)
EXTENDS Integers, Sequences, FiniteSets, TLC

VARIABLES
  mockAccounts,          \* the Account fixtures of the loaded module
  mockAccountBalances,   \* the AccountBalance fixtures of the loaded module
  currentTotals,         \* module-level constant computed once at load
  now,                   \* the wall clock, a Date
  pc,                    \* "idle" between requests, "done" when a call returned
  call,                  \* the operation just performed and its arguments
  points,                \* the series returned by the last simulator call
  totals,                \* the result of the last calculateCurrentTotals()
  assetBreakdown,        \* the result of the last calculateAssetBreakdown()
  liabilityBreakdown,    \* the result of the last calculateLiabilityBreakdown()
  saved,                 \* an earlier simulator call kept for comparison
  frames,                \* the local variables of the invocations in flight
  instances,             \* the SeededRandom instances a caller holds
  client,                \* the web client: one query and the refresh mutation
  performance            \* the last response of GET /api/assets/performance

vars == << mockAccounts, mockAccountBalances, currentTotals, now, pc, call,
           points, totals, assetBreakdown, liabilityBreakdown, saved,
           frames, instances, client, performance >>

-----------------------------------------------------------------------------
(* Account types and categories (shared-types/src/index.ts)                *)

ACCOUNT_TYPES ==
  [ DEPOSITORY |-> "depository", INVESTMENT |-> "investment", LOAN |-> "loan",
    CREDIT |-> "credit", MANUAL_ASSET |-> "manual_asset",
    MANUAL_LIABILITY |-> "manual_liability", SOLANA_WALLET |-> "solana_wallet" ]

ACCOUNT_CATEGORIES ==
  [ CASH |-> "cash", INVESTMENT |-> "investment", PROPERTY |-> "property",
    VEHICLE |-> "vehicle", PRECIOUS_METAL |-> "precious_metal",
    DIGITAL_ASSET |-> "digital_asset", OTHER_CATEGORY |-> "other" ]

AccountTypeSet == { ACCOUNT_TYPES[k] : k \in DOMAIN ACCOUNT_TYPES }

AccountCategorySet == { ACCOUNT_CATEGORIES[k] : k \in DOMAIN ACCOUNT_CATEGORIES }

\* an optional reference (plaidItemId, plaidAccountId, solanaWalletId) left unset
NoReference == "undefined"

\* `undefined` where a balance object is expected
NoBalance == [id |-> "undefined", accountId |-> "undefined", balance |-> 0, isCurrent |-> FALSE]

\* `undefined` where an account object is expected
NoAccount ==
  [id |-> "undefined", type |-> "undefined", subtype |-> "undefined",
   category |-> "undefined", isManual |-> FALSE, plaidItemId |-> NoReference,
   plaidAccountId |-> NoReference, solanaWalletId |-> NoReference,
   currentBalance |-> NoBalance]

RECURSIVE FindFrom(_, _, _)
\* Array.prototype.find from index k on: the first element with the given id
FindFrom(arr, id, k) ==
  IF k > Len(arr) THEN 0
  ELSE IF arr[k].id = id THEN k
  ELSE FindFrom(arr, id, k + 1)

\* mockAccountBalances.find((bal) => bal.id === id)
FindBalanceById(bals, id) ==
  LET k == FindFrom(bals, id, 1) IN IF k = 0 THEN NoBalance ELSE bals[k]

\* mockAccounts.find((acc) => acc.id === id)
FindAccountById(accs, id) ==
  LET k == FindFrom(accs, id, 1) IN IF k = 0 THEN NoAccount ELSE accs[k]

-----------------------------------------------------------------------------
(* The shipped fixtures: API copy (Api...) and web copy (Web...)           *)

ApiBalances ==
  << [id |-> "bal-1", accountId |-> "acc-1", balance |-> 12500, isCurrent |-> TRUE],
     [id |-> "bal-2", accountId |-> "acc-2", balance |-> 25000, isCurrent |-> TRUE],
     [id |-> "bal-3", accountId |-> "acc-3", balance |-> 85000, isCurrent |-> TRUE],
     [id |-> "bal-4", accountId |-> "acc-4", balance |-> 42500, isCurrent |-> TRUE],
     [id |-> "bal-5", accountId |-> "acc-5", balance |-> 2500, isCurrent |-> TRUE],
     [id |-> "bal-6", accountId |-> "acc-6", balance |-> 15000, isCurrent |-> TRUE],
     [id |-> "bal-7", accountId |-> "acc-7", balance |-> 350000, isCurrent |-> TRUE],
     [id |-> "bal-8", accountId |-> "acc-8", balance |-> 28000, isCurrent |-> TRUE],
     [id |-> "bal-9", accountId |-> "acc-9", balance |-> 25000, isCurrent |-> TRUE],
     [id |-> "bal-10", accountId |-> "acc-10", balance |-> 15000, isCurrent |-> TRUE],
     [id |-> "bal-11", accountId |-> "acc-11", balance |-> 11000, isCurrent |-> TRUE],
     [id |-> "bal-12", accountId |-> "acc-12", balance |-> 16000, isCurrent |-> TRUE],
     [id |-> "bal-13", accountId |-> "acc-13", balance |-> 20000, isCurrent |-> TRUE],
     [id |-> "bal-14", accountId |-> "acc-14", balance |-> 8000, isCurrent |-> TRUE],
     [id |-> "bal-15", accountId |-> "acc-15", balance |-> 20000, isCurrent |-> TRUE],
     [id |-> "bal-16", accountId |-> "acc-16", balance |-> 12000, isCurrent |-> TRUE],
     [id |-> "bal-17", accountId |-> "acc-17", balance |-> 8500, isCurrent |-> TRUE],
     [id |-> "bal-18", accountId |-> "acc-18", balance |-> 15000, isCurrent |-> TRUE],
     [id |-> "bal-1-monthly", accountId |-> "acc-1", balance |-> 12000, isCurrent |-> FALSE],
     [id |-> "bal-2-monthly", accountId |-> "acc-2", balance |-> 24500, isCurrent |-> FALSE],
     [id |-> "bal-3-monthly", accountId |-> "acc-3", balance |-> 82000, isCurrent |-> FALSE],
     [id |-> "bal-4-monthly", accountId |-> "acc-4", balance |-> 41000, isCurrent |-> FALSE],
     [id |-> "bal-5-monthly", accountId |-> "acc-5", balance |-> 3000, isCurrent |-> FALSE],
     [id |-> "bal-6-monthly", accountId |-> "acc-6", balance |-> 15500, isCurrent |-> FALSE],
     [id |-> "bal-7-monthly", accountId |-> "acc-7", balance |-> 348000, isCurrent |-> FALSE],
     [id |-> "bal-8-monthly", accountId |-> "acc-8", balance |-> 28500, isCurrent |-> FALSE],
     [id |-> "bal-9-monthly", accountId |-> "acc-9", balance |-> 22000, isCurrent |-> FALSE],
     [id |-> "bal-10-monthly", accountId |-> "acc-10", balance |-> 13500, isCurrent |-> FALSE],
     [id |-> "bal-11-monthly", accountId |-> "acc-11", balance |-> 8000, isCurrent |-> FALSE],
     [id |-> "bal-12-monthly", accountId |-> "acc-12", balance |-> 15800, isCurrent |-> FALSE],
     [id |-> "bal-13-monthly", accountId |-> "acc-13", balance |-> 19500, isCurrent |-> FALSE],
     [id |-> "bal-14-monthly", accountId |-> "acc-14", balance |-> 7800, isCurrent |-> FALSE],
     [id |-> "bal-15-monthly", accountId |-> "acc-15", balance |-> 19600, isCurrent |-> FALSE],
     [id |-> "bal-16-monthly", accountId |-> "acc-16", balance |-> 10500, isCurrent |-> FALSE],
     [id |-> "bal-17-monthly", accountId |-> "acc-17", balance |-> 7200, isCurrent |-> FALSE],
     [id |-> "bal-18-monthly", accountId |-> "acc-18", balance |-> 18000, isCurrent |-> FALSE] >>

ApiAccounts ==
  << [id |-> "acc-1", type |-> "depository", subtype |-> "checking", category |-> "cash", isManual |-> FALSE,
      plaidItemId |-> "item-1", plaidAccountId |-> "plaid-acc-1", solanaWalletId |-> NoReference,
      currentBalance |-> ApiBalances[1]],
     [id |-> "acc-2", type |-> "depository", subtype |-> "savings", category |-> "cash", isManual |-> FALSE,
      plaidItemId |-> "item-1", plaidAccountId |-> "plaid-acc-2", solanaWalletId |-> NoReference,
      currentBalance |-> ApiBalances[2]],
     [id |-> "acc-3", type |-> "investment", subtype |-> "brokerage", category |-> "investment", isManual |-> FALSE,
      plaidItemId |-> "item-2", plaidAccountId |-> "plaid-acc-3", solanaWalletId |-> NoReference,
      currentBalance |-> ApiBalances[3]],
     [id |-> "acc-4", type |-> "investment", subtype |-> "ira", category |-> "investment", isManual |-> FALSE,
      plaidItemId |-> "item-3", plaidAccountId |-> "plaid-acc-4", solanaWalletId |-> NoReference,
      currentBalance |-> ApiBalances[4]],
     [id |-> "acc-5", type |-> "credit", subtype |-> "credit_card", category |-> "other", isManual |-> FALSE,
      plaidItemId |-> "item-1", plaidAccountId |-> "plaid-acc-5", solanaWalletId |-> NoReference,
      currentBalance |-> ApiBalances[5]],
     [id |-> "acc-6", type |-> "loan", subtype |-> "auto", category |-> "other", isManual |-> FALSE,
      plaidItemId |-> "item-4", plaidAccountId |-> "plaid-acc-6", solanaWalletId |-> NoReference,
      currentBalance |-> ApiBalances[6]],
     [id |-> "acc-7", type |-> "manual_asset", subtype |-> "real_estate", category |-> "property", isManual |-> TRUE,
      plaidItemId |-> NoReference, plaidAccountId |-> NoReference, solanaWalletId |-> NoReference,
      currentBalance |-> ApiBalances[7]],
     [id |-> "acc-8", type |-> "manual_asset", subtype |-> "vehicle", category |-> "vehicle", isManual |-> TRUE,
      plaidItemId |-> NoReference, plaidAccountId |-> NoReference, solanaWalletId |-> NoReference,
      currentBalance |-> ApiBalances[8]],
     [id |-> "acc-9", type |-> "manual_asset", subtype |-> "bitcoin", category |-> "digital_asset", isManual |-> TRUE,
      plaidItemId |-> NoReference, plaidAccountId |-> NoReference, solanaWalletId |-> NoReference,
      currentBalance |-> ApiBalances[9]],
     [id |-> "acc-10", type |-> "manual_asset", subtype |-> "ethereum", category |-> "digital_asset", isManual |-> TRUE,
      plaidItemId |-> NoReference, plaidAccountId |-> NoReference, solanaWalletId |-> NoReference,
      currentBalance |-> ApiBalances[10]],
     [id |-> "acc-11", type |-> "manual_asset", subtype |-> "nft", category |-> "digital_asset", isManual |-> TRUE,
      plaidItemId |-> NoReference, plaidAccountId |-> NoReference, solanaWalletId |-> NoReference,
      currentBalance |-> ApiBalances[11]],
     [id |-> "acc-12", type |-> "manual_asset", subtype |-> "rwa", category |-> "digital_asset", isManual |-> TRUE,
      plaidItemId |-> NoReference, plaidAccountId |-> NoReference, solanaWalletId |-> NoReference,
      currentBalance |-> ApiBalances[12]],
     [id |-> "acc-13", type |-> "manual_asset", subtype |-> "gold", category |-> "precious_metal", isManual |-> TRUE,
      plaidItemId |-> NoReference, plaidAccountId |-> NoReference, solanaWalletId |-> NoReference,
      currentBalance |-> ApiBalances[13]],
     [id |-> "acc-14", type |-> "manual_asset", subtype |-> "silver", category |-> "precious_metal", isManual |-> TRUE,
      plaidItemId |-> NoReference, plaidAccountId |-> NoReference, solanaWalletId |-> NoReference,
      currentBalance |-> ApiBalances[14]],
     [id |-> "acc-15", type |-> "manual_asset", subtype |-> "etf", category |-> "precious_metal", isManual |-> TRUE,
      plaidItemId |-> NoReference, plaidAccountId |-> NoReference, solanaWalletId |-> NoReference,
      currentBalance |-> ApiBalances[15]],
     [id |-> "acc-16", type |-> "solana_wallet", subtype |-> "solana", category |-> "digital_asset", isManual |-> FALSE,
      plaidItemId |-> NoReference, plaidAccountId |-> NoReference, solanaWalletId |-> NoReference,
      currentBalance |-> FindBalanceById(ApiBalances, "bal-16")],
     [id |-> "acc-17", type |-> "solana_wallet", subtype |-> "spl_token", category |-> "digital_asset", isManual |-> FALSE,
      plaidItemId |-> NoReference, plaidAccountId |-> NoReference, solanaWalletId |-> NoReference,
      currentBalance |-> FindBalanceById(ApiBalances, "bal-17")],
     [id |-> "acc-18", type |-> "solana_wallet", subtype |-> "solana_nft", category |-> "digital_asset", isManual |-> FALSE,
      plaidItemId |-> NoReference, plaidAccountId |-> NoReference, solanaWalletId |-> NoReference,
      currentBalance |-> FindBalanceById(ApiBalances, "bal-18")] >>

WebBalances ==
  << [id |-> "bal-1", accountId |-> "acc-1", balance |-> 12500, isCurrent |-> TRUE],
     [id |-> "bal-2", accountId |-> "acc-2", balance |-> 25000, isCurrent |-> TRUE],
     [id |-> "bal-3", accountId |-> "acc-3", balance |-> 85000, isCurrent |-> TRUE],
     [id |-> "bal-4", accountId |-> "acc-4", balance |-> 42500, isCurrent |-> TRUE],
     [id |-> "bal-5", accountId |-> "acc-5", balance |-> 2500, isCurrent |-> TRUE],
     [id |-> "bal-6", accountId |-> "acc-6", balance |-> 15000, isCurrent |-> TRUE],
     [id |-> "bal-7", accountId |-> "acc-7", balance |-> 350000, isCurrent |-> TRUE],
     [id |-> "bal-8", accountId |-> "acc-8", balance |-> 28000, isCurrent |-> TRUE],
     [id |-> "bal-9", accountId |-> "acc-9", balance |-> 25000, isCurrent |-> TRUE],
     [id |-> "bal-12", accountId |-> "acc-12", balance |-> 16000, isCurrent |-> TRUE],
     [id |-> "bal-13", accountId |-> "acc-13", balance |-> 20000, isCurrent |-> TRUE],
     [id |-> "bal-14", accountId |-> "acc-14", balance |-> 8000, isCurrent |-> TRUE],
     [id |-> "bal-15", accountId |-> "acc-15", balance |-> 20000, isCurrent |-> TRUE],
     [id |-> "bal-14", accountId |-> "acc-16", balance |-> 8400, isCurrent |-> TRUE],
     [id |-> "bal-15", accountId |-> "acc-17", balance |-> 25000, isCurrent |-> TRUE],
     [id |-> "bal-16", accountId |-> "acc-18", balance |-> 12000, isCurrent |-> TRUE],
     [id |-> "bal-17", accountId |-> "acc-19", balance |-> 18500, isCurrent |-> TRUE],
     [id |-> "bal-18", accountId |-> "acc-20", balance |-> 4200, isCurrent |-> TRUE],
     [id |-> "bal-19", accountId |-> "acc-21", balance |-> 32000, isCurrent |-> TRUE],
     [id |-> "bal-20", accountId |-> "acc-22", balance |-> 7800, isCurrent |-> TRUE],
     [id |-> "bal-21", accountId |-> "acc-23", balance |-> 15600, isCurrent |-> TRUE],
     [id |-> "bal-1-monthly", accountId |-> "acc-1", balance |-> 12000, isCurrent |-> FALSE],
     [id |-> "bal-2-monthly", accountId |-> "acc-2", balance |-> 24500, isCurrent |-> FALSE],
     [id |-> "bal-3-monthly", accountId |-> "acc-3", balance |-> 82000, isCurrent |-> FALSE],
     [id |-> "bal-4-monthly", accountId |-> "acc-4", balance |-> 41000, isCurrent |-> FALSE],
     [id |-> "bal-5-monthly", accountId |-> "acc-5", balance |-> 3000, isCurrent |-> FALSE],
     [id |-> "bal-6-monthly", accountId |-> "acc-6", balance |-> 15500, isCurrent |-> FALSE],
     [id |-> "bal-7-monthly", accountId |-> "acc-7", balance |-> 348000, isCurrent |-> FALSE],
     [id |-> "bal-8-monthly", accountId |-> "acc-8", balance |-> 28500, isCurrent |-> FALSE],
     [id |-> "bal-9-monthly", accountId |-> "acc-9", balance |-> 22000, isCurrent |-> FALSE],
     [id |-> "bal-12-monthly", accountId |-> "acc-12", balance |-> 15800, isCurrent |-> FALSE],
     [id |-> "bal-13-monthly", accountId |-> "acc-13", balance |-> 19500, isCurrent |-> FALSE],
     [id |-> "bal-14-monthly", accountId |-> "acc-14", balance |-> 7800, isCurrent |-> FALSE],
     [id |-> "bal-15-monthly", accountId |-> "acc-15", balance |-> 19600, isCurrent |-> FALSE],
     [id |-> "bal-14-monthly", accountId |-> "acc-16", balance |-> 7200, isCurrent |-> FALSE],
     [id |-> "bal-15-monthly", accountId |-> "acc-17", balance |-> 25000, isCurrent |-> FALSE],
     [id |-> "bal-16-monthly", accountId |-> "acc-18", balance |-> 9800, isCurrent |-> FALSE],
     [id |-> "bal-17-monthly", accountId |-> "acc-19", balance |-> 21000, isCurrent |-> FALSE],
     [id |-> "bal-18-monthly", accountId |-> "acc-20", balance |-> 6800, isCurrent |-> FALSE],
     [id |-> "bal-19-monthly", accountId |-> "acc-21", balance |-> 28000, isCurrent |-> FALSE],
     [id |-> "bal-20-monthly", accountId |-> "acc-22", balance |-> 9200, isCurrent |-> FALSE],
     [id |-> "bal-21-monthly", accountId |-> "acc-23", balance |-> 13400, isCurrent |-> FALSE] >>

WebAccounts ==
  << [id |-> "acc-1", type |-> "depository", subtype |-> "checking", category |-> "cash", isManual |-> FALSE,
      plaidItemId |-> "item-1", plaidAccountId |-> "plaid-acc-1", solanaWalletId |-> NoReference,
      currentBalance |-> WebBalances[1]],
     [id |-> "acc-2", type |-> "depository", subtype |-> "savings", category |-> "cash", isManual |-> FALSE,
      plaidItemId |-> "item-1", plaidAccountId |-> "plaid-acc-2", solanaWalletId |-> NoReference,
      currentBalance |-> WebBalances[2]],
     [id |-> "acc-3", type |-> "investment", subtype |-> "brokerage", category |-> "investment", isManual |-> FALSE,
      plaidItemId |-> "item-2", plaidAccountId |-> "plaid-acc-3", solanaWalletId |-> NoReference,
      currentBalance |-> WebBalances[3]],
     [id |-> "acc-4", type |-> "investment", subtype |-> "ira", category |-> "investment", isManual |-> FALSE,
      plaidItemId |-> "item-3", plaidAccountId |-> "plaid-acc-4", solanaWalletId |-> NoReference,
      currentBalance |-> WebBalances[4]],
     [id |-> "acc-5", type |-> "credit", subtype |-> "credit_card", category |-> "other", isManual |-> FALSE,
      plaidItemId |-> "item-1", plaidAccountId |-> "plaid-acc-5", solanaWalletId |-> NoReference,
      currentBalance |-> WebBalances[5]],
     [id |-> "acc-6", type |-> "loan", subtype |-> "auto", category |-> "other", isManual |-> FALSE,
      plaidItemId |-> "item-4", plaidAccountId |-> "plaid-acc-6", solanaWalletId |-> NoReference,
      currentBalance |-> WebBalances[6]],
     [id |-> "acc-7", type |-> "manual_asset", subtype |-> "real_estate", category |-> "property", isManual |-> TRUE,
      plaidItemId |-> NoReference, plaidAccountId |-> NoReference, solanaWalletId |-> NoReference,
      currentBalance |-> WebBalances[7]],
     [id |-> "acc-8", type |-> "manual_asset", subtype |-> "vehicle", category |-> "vehicle", isManual |-> TRUE,
      plaidItemId |-> NoReference, plaidAccountId |-> NoReference, solanaWalletId |-> NoReference,
      currentBalance |-> WebBalances[8]],
     [id |-> "acc-9", type |-> "manual_asset", subtype |-> "bitcoin", category |-> "digital_asset", isManual |-> TRUE,
      plaidItemId |-> NoReference, plaidAccountId |-> NoReference, solanaWalletId |-> NoReference,
      currentBalance |-> WebBalances[9]],
     [id |-> "acc-12", type |-> "solana_wallet", subtype |-> "spl_token", category |-> "digital_asset", isManual |-> FALSE,
      plaidItemId |-> NoReference, plaidAccountId |-> NoReference, solanaWalletId |-> NoReference,
      currentBalance |-> FindBalanceById(WebBalances, "bal-12")],
     [id |-> "acc-13", type |-> "manual_asset", subtype |-> "gold", category |-> "precious_metal", isManual |-> TRUE,
      plaidItemId |-> NoReference, plaidAccountId |-> NoReference, solanaWalletId |-> NoReference,
      currentBalance |-> WebBalances[11]],
     [id |-> "acc-14", type |-> "manual_asset", subtype |-> "silver", category |-> "precious_metal", isManual |-> TRUE,
      plaidItemId |-> NoReference, plaidAccountId |-> NoReference, solanaWalletId |-> NoReference,
      currentBalance |-> WebBalances[12]],
     [id |-> "acc-15", type |-> "manual_asset", subtype |-> "etf", category |-> "precious_metal", isManual |-> TRUE,
      plaidItemId |-> NoReference, plaidAccountId |-> NoReference, solanaWalletId |-> NoReference,
      currentBalance |-> WebBalances[13]],
     [id |-> "acc-16", type |-> "solana_wallet", subtype |-> "solana", category |-> "digital_asset", isManual |-> FALSE,
      plaidItemId |-> NoReference, plaidAccountId |-> NoReference, solanaWalletId |-> NoReference,
      currentBalance |-> FindBalanceById(WebBalances, "bal-14")],
     [id |-> "acc-17", type |-> "solana_wallet", subtype |-> "spl_token", category |-> "digital_asset", isManual |-> FALSE,
      plaidItemId |-> NoReference, plaidAccountId |-> NoReference, solanaWalletId |-> NoReference,
      currentBalance |-> FindBalanceById(WebBalances, "bal-15")],
     [id |-> "acc-18", type |-> "solana_wallet", subtype |-> "spl_token", category |-> "digital_asset", isManual |-> FALSE,
      plaidItemId |-> NoReference, plaidAccountId |-> NoReference, solanaWalletId |-> NoReference,
      currentBalance |-> FindBalanceById(WebBalances, "bal-16")],
     [id |-> "acc-19", type |-> "solana_wallet", subtype |-> "solana_nft", category |-> "digital_asset", isManual |-> FALSE,
      plaidItemId |-> NoReference, plaidAccountId |-> NoReference, solanaWalletId |-> NoReference,
      currentBalance |-> FindBalanceById(WebBalances, "bal-17")],
     [id |-> "acc-20", type |-> "solana_wallet", subtype |-> "spl_token", category |-> "digital_asset", isManual |-> FALSE,
      plaidItemId |-> NoReference, plaidAccountId |-> NoReference, solanaWalletId |-> NoReference,
      currentBalance |-> FindBalanceById(WebBalances, "bal-18")],
     [id |-> "acc-21", type |-> "solana_wallet", subtype |-> "solana_nft", category |-> "digital_asset", isManual |-> FALSE,
      plaidItemId |-> NoReference, plaidAccountId |-> NoReference, solanaWalletId |-> NoReference,
      currentBalance |-> FindBalanceById(WebBalances, "bal-19")],
     [id |-> "acc-22", type |-> "solana_wallet", subtype |-> "solana_nft", category |-> "digital_asset", isManual |-> FALSE,
      plaidItemId |-> NoReference, plaidAccountId |-> NoReference, solanaWalletId |-> NoReference,
      currentBalance |-> FindBalanceById(WebBalances, "bal-20")],
     [id |-> "acc-23", type |-> "solana_wallet", subtype |-> "solana", category |-> "digital_asset", isManual |-> FALSE,
      plaidItemId |-> NoReference, plaidAccountId |-> NoReference, solanaWalletId |-> NoReference,
      currentBalance |-> FindBalanceById(WebBalances, "bal-21")] >>

-----------------------------------------------------------------------------
(* Aggregation layer                                                        *)

\* `x || 0` on a number
OrZero(x) == IF x = 0 THEN 0 ELSE x

\* acc.currentBalance?.balance || 0
CurrentBalanceOf(acc) ==
  IF acc.currentBalance = NoBalance THEN 0 ELSE OrZero(acc.currentBalance.balance)

\* the account types calculateCurrentTotals adds to totalAssets
TotalsAssetTypes ==
  { ACCOUNT_TYPES.DEPOSITORY, ACCOUNT_TYPES.INVESTMENT, ACCOUNT_TYPES.MANUAL_ASSET }

\* the account types calculateCurrentTotals adds to totalLiabilities
TotalsLiabilityTypes == { ACCOUNT_TYPES.CREDIT, ACCOUNT_TYPES.LOAN }

RECURSIVE TotalsLoop(_, _, _, _, _)
\* the for-loop of calculateCurrentTotals over mockAccountBalances from index k,
\* with the running totalAssets (ta) and totalLiabilities (tl)
TotalsLoop(accs, bals, k, ta, tl) ==
  IF k > Len(bals) THEN [totalAssets |-> ta, totalLiabilities |-> tl]
  ELSE
    LET balance == bals[k]
        account == FindAccountById(accs, balance.accountId)
        balanceValue == OrZero(balance.balance)
    IN  IF ~balance.isCurrent THEN TotalsLoop(accs, bals, k + 1, ta, tl)
        ELSE IF account = NoAccount THEN TotalsLoop(accs, bals, k + 1, ta, tl)
        ELSE IF account.type \in TotalsAssetTypes
          THEN TotalsLoop(accs, bals, k + 1, ta + balanceValue, tl)
        ELSE IF account.type \in TotalsLiabilityTypes
          THEN TotalsLoop(accs, bals, k + 1, ta, tl + balanceValue)
        ELSE TotalsLoop(accs, bals, k + 1, ta, tl)

\* a faulty calculateCurrentTotals: the isCurrent filter is missing
calculateCurrentTotalsOfAllBalances(accs, bals) ==
  LET t == TotalsLoop(accs, [k \in DOMAIN bals |-> [bals[k] EXCEPT !.isCurrent = TRUE]],
                      1, 0, 0)
  IN  [ totalAssets |-> t.totalAssets,
        totalLiabilities |-> t.totalLiabilities,
        currentNetWorth |-> t.totalAssets - t.totalLiabilities ]

calculateCurrentTotals(accs, bals) ==
  LET t == TotalsLoop(accs, bals, 1, 0, 0)
  IN  [ totalAssets |-> t.totalAssets,
        totalLiabilities |-> t.totalLiabilities,
        currentNetWorth |-> t.totalAssets - t.totalLiabilities ]

\* the set of the accounts held in the array accs
Accounts(accs) == { accs[k] : k \in DOMAIN accs }

RECURSIVE SumWhere(_, _, _)
\* accounts.filter(..).reduce((sum, acc) => sum + (acc.currentBalance?.balance || 0), 0)
\* from index k on; kept is the set of accounts the filter keeps
SumWhere(accs, kept, k) ==
  IF k > Len(accs) THEN 0
  ELSE (IF accs[k] \in kept THEN CurrentBalanceOf(accs[k]) ELSE 0) + SumWhere(accs, kept, k + 1)

\* the account types calculateAssetBreakdown keeps
BreakdownAssetTypes ==
  { ACCOUNT_TYPES.DEPOSITORY, ACCOUNT_TYPES.INVESTMENT, ACCOUNT_TYPES.MANUAL_ASSET }

\* the account types calculateLiabilityBreakdown keeps
BreakdownLiabilityTypes ==
  { ACCOUNT_TYPES.CREDIT, ACCOUNT_TYPES.LOAN, ACCOUNT_TYPES.MANUAL_LIABILITY }

\* assetAccounts.filter((acc) => acc.category === c).reduce(...)
AssetBucket(accs, c) ==
  SumWhere(accs, { acc \in Accounts(accs) :
                     acc.type \in BreakdownAssetTypes /\ acc.category = c }, 1)

calculateAssetBreakdown(accs) ==
  [ cash           |-> AssetBucket(accs, ACCOUNT_CATEGORIES.CASH),
    investments    |-> AssetBucket(accs, ACCOUNT_CATEGORIES.INVESTMENT),
    property       |-> AssetBucket(accs, ACCOUNT_CATEGORIES.PROPERTY),
    vehicles       |-> AssetBucket(accs, ACCOUNT_CATEGORIES.VEHICLE),
    preciousMetals |-> AssetBucket(accs, ACCOUNT_CATEGORIES.PRECIOUS_METAL),
    digitalAssets  |-> AssetBucket(accs, ACCOUNT_CATEGORIES.DIGITAL_ASSET),
    other          |-> AssetBucket(accs, ACCOUNT_CATEGORIES.OTHER_CATEGORY) ]

\* a faulty calculateLiabilityBreakdown: the loans bucket does not exclude the
\* mortgages
calculateLiabilityBreakdownAllLoans(accs) ==
  LET liabilityAccounts == { acc \in Accounts(accs) : acc.type \in BreakdownLiabilityTypes }
  IN  [ creditCards |-> SumWhere(accs,
                          { acc \in liabilityAccounts : acc.type = ACCOUNT_TYPES.CREDIT }, 1),
        mortgages   |-> SumWhere(accs,
                          { acc \in liabilityAccounts : acc.type = ACCOUNT_TYPES.LOAN
                                                        /\ acc.subtype = "mortgage" }, 1),
        loans       |-> SumWhere(accs,
                          { acc \in liabilityAccounts : acc.type = ACCOUNT_TYPES.LOAN }, 1),
        other       |-> SumWhere(accs,
                          { acc \in liabilityAccounts :
                              acc.type = ACCOUNT_TYPES.MANUAL_LIABILITY }, 1) ]

calculateLiabilityBreakdown(accs) ==
  LET liabilityAccounts == { acc \in Accounts(accs) : acc.type \in BreakdownLiabilityTypes }
  IN  [ creditCards |-> SumWhere(accs,
                          { acc \in liabilityAccounts : acc.type = ACCOUNT_TYPES.CREDIT }, 1),
        mortgages   |-> SumWhere(accs,
                          { acc \in liabilityAccounts : acc.type = ACCOUNT_TYPES.LOAN
                                                        /\ acc.subtype = "mortgage" }, 1),
        loans       |-> SumWhere(accs,
                          { acc \in liabilityAccounts : acc.type = ACCOUNT_TYPES.LOAN
                                                        /\ acc.subtype # "mortgage" }, 1),
        other       |-> SumWhere(accs,
                          { acc \in liabilityAccounts :
                              acc.type = ACCOUNT_TYPES.MANUAL_LIABILITY }, 1) ]

-----------------------------------------------------------------------------
(* Fixed-point arithmetic standing in for IEEE doubles                      *)

\* units of a dimensionless factor: 1.0 is Scale
Scale == 10000

\* cents per currency unit: amounts inside the simulator are in cents
Cent == 100

\* floor(a * b / c) without leaving 32-bit integers; needs b * c < 2^31, c > 0
MulDiv(a, b, c) == (a \div c) * b + ((a % c) * b) \div c

Max(a, b) == IF a >= b THEN a ELSE b

Min(a, b) == IF a <= b THEN a ELSE b

\* Math.max(lo, Math.min(hi, x))
Clamp(lo, hi, x) == Max(lo, Min(hi, x))

\* Math.round on an amount in cents, giving whole currency units:
\* floor(x + 0.5), so halves round towards +Infinity
MathRound(cents) == (cents + Cent \div 2) \div Cent

RECURSIVE IsqrtIter(_, _)
IsqrtIter(n, x) ==
  LET y == (x + n \div x) \div 2 IN IF y >= x THEN x ELSE IsqrtIter(n, y)

\* floor(Math.sqrt(n)) for an integer n >= 0
Isqrt(n) == IF n <= 0 THEN 0 ELSE IsqrtIter(n, n)

\* Math.sin of 0..90 degrees, in units of 1/Scale
SinTable ==
  << 0, 175, 349, 523, 698, 872, 1045, 1219, 1392, 1564, 1736, 1908, 2079,
     2250, 2419, 2588, 2756, 2924, 3090, 3256, 3420, 3584, 3746, 3907, 4067, 4226,
     4384, 4540, 4695, 4848, 5000, 5150, 5299, 5446, 5592, 5736, 5878, 6018, 6157,
     6293, 6428, 6561, 6691, 6820, 6947, 7071, 7193, 7314, 7431, 7547, 7660, 7771,
     7880, 7986, 8090, 8192, 8290, 8387, 8480, 8572, 8660, 8746, 8829, 8910, 8988,
     9063, 9135, 9205, 9272, 9336, 9397, 9455, 9511, 9563, 9613, 9659, 9703, 9744,
     9781, 9816, 9848, 9877, 9903, 9925, 9945, 9962, 9976, 9986, 9994, 9998, 10000 >>

\* sine of a whole number of degrees in 0..360
SinDegree(d) ==
  IF d <= 90 THEN SinTable[d + 1]
  ELSE IF d <= 180 THEN SinTable[180 - d + 1]
  ELSE IF d <= 270 THEN 0 - SinTable[d - 180 + 1]
  ELSE 0 - SinTable[360 - d + 1]

\* Math.sin of an angle given in tenths of a degree (any integer), in units
\* of 1/Scale, by linear interpolation between whole degrees
Sin(deci) ==
  LET a == deci % 3600
      d == a \div 10
      f == a % 10
  IN  SinDegree(d) + ((SinDegree(d + 1) - SinDegree(d)) * f) \div 10

\* Math.cos of an angle given in tenths of a degree
Cos(deci) == Sin(deci + 900)

\* units of the finer fixed point used inside Math.log and Math.exp
Fine == 100000

\* Math.log(2) in units of 1/Fine
Ln2 == 69315

\* Math.log(m / 65536) for 32768 <= m <= 65536, in units of 1/Fine (<= 0):
\* ln x = -2 (s + s^3/3 + s^5/5 + s^7/7), s = (1 - x) / (1 + x)
LnMantissa(m) ==
  LET num == (65536 - m) * Scale
      den == m + 65536
      s  == (num \div den) * (Fine \div Scale) + ((num % den) * (Fine \div Scale)) \div den
      s2 == (s * s) \div Fine
      s3 == (s2 * s) \div Fine
      s5 == (s3 * s2) \div Fine
      s7 == (s5 * s2) \div Fine
  IN  0 - 2 * (s + s3 \div 3 + s5 \div 5 + s7 \div 7)

\* totalGrowthRate = 0.08, in units of 1/Scale
TotalGrowthRate == 800

\* Math.log(1 + totalGrowthRate), in units of 1/Fine
LnGrowth == 0 - LnMantissa((65536 * Scale) \div (Scale + TotalGrowthRate))

RECURSIVE PowInt(_)
\* Math.pow(1 + totalGrowthRate, n) for a whole n >= 0, in units of 1/Scale
PowInt(n) ==
  IF n = 0 THEN Scale ELSE (PowInt(n - 1) * (Scale + TotalGrowthRate)) \div Scale

\* Math.exp(x) for 0 <= x < 0.1 given in units of 1/Fine, in units of 1/Fine
ExpSmall(x) ==
  LET x2 == (x * x) \div Fine
      x3 == (x2 * x) \div Fine
  IN  Fine + x + x2 \div 2 + x3 \div 6

\* Math.pow(1 + totalGrowthRate, y) for y >= 0 years given in units of
\* 1/Scale, in units of 1/Scale
Pow(y) ==
  LET n == y \div Scale
      f == y % Scale
      x == (f * LnGrowth) \div Scale
  IN  MulDiv(PowInt(n), (ExpSmall(x) * Scale) \div Fine, Scale)

-----------------------------------------------------------------------------
(* Dates                                                                    *)

\* const msPerDay = 24 * 60 * 60 * 1000
MsPerDay == 86400000

\* new Date(t) for t = day * msPerDay + ms
MkDate(day, ms) == [day |-> day, ms |-> ms]

\* new Date(date.getTime() + n * msPerDay)
AddDays(date, n) == [day |-> date.day + n, ms |-> date.ms]

\* a.getTime() - b.getTime(), as whole days (floor) and the milliseconds left
TimeDiff(a, b) ==
  IF a.ms >= b.ms THEN [days |-> a.day - b.day, ms |-> a.ms - b.ms]
  ELSE [days |-> a.day - b.day - 1, ms |-> a.ms - b.ms + MsPerDay]

\* a.getTime() < b.getTime()
DateBefore(a, b) == a.day < b.day \/ (a.day = b.day /\ a.ms < b.ms)

\* the civil calendar fields of a day number (days since 1970-01-01):
\* year is getFullYear(), month is getMonth() (zero-based), date is getDate()
Civil(day) ==
  LET z   == day + 719468
      era == z \div 146097
      doe == z - era * 146097
      yoe == (doe - doe \div 1460 + doe \div 36524 - doe \div 146096) \div 365
      doy == doe - (365 * yoe + yoe \div 4 - yoe \div 100)
      mp  == (5 * doy + 2) \div 153
      d   == doy - (153 * mp + 2) \div 5 + 1
      m   == IF mp < 10 THEN mp + 3 ELSE mp - 9
      y   == yoe + era * 400 + (IF m <= 2 THEN 1 ELSE 0)
  IN  [year |-> y, month |-> m - 1, date |-> d]

-----------------------------------------------------------------------------
(* class SeededRandom                                                       *)

\* the multiplier of the linear congruential generator
LcgA == 1664525

\* the increment of the linear congruential generator
LcgC == 1013904223

\* 2^16: the LCG state `seed` is hi * Limb + lo
Limb == 65536

\* new SeededRandom(seed)
SeededRandom(seed) ==
  [hi |-> seed \div Limb, lo |-> seed % Limb, hasSpare |-> FALSE, spareNormal |-> 0]

\* the intermediate value this.seed * A + C of next() as an exact integer,
\* top * 2 ** 32 + hi * Limb + lo
Intermediate(rng) ==
  LET t   == rng.lo * (LcgA % Limb) + (LcgC % Limb)
      mid == rng.hi * (LcgA % Limb) + rng.lo * (LcgA \div Limb)
             + (LcgC \div Limb) + t \div Limb
  IN  [ top |-> rng.hi * (LcgA \div Limb) + mid \div Limb,
        hi |-> mid % Limb, lo |-> t % Limb ]

\* a faulty next(): the increment is left out, this.seed = (this.seed * A) % 2 ** 32
NextStateWithoutIncrement(rng) ==
  LET t  == rng.lo * (LcgA % Limb)
      hi == (rng.hi * (LcgA % Limb) + rng.lo * (LcgA \div Limb) + t \div Limb) % Limb
  IN  [rng EXCEPT !.hi = hi, !.lo = t % Limb]

\* the state update of next(): this.seed = (this.seed * A + C) % 2 ** 32
NextState(rng) ==
  LET t  == rng.lo * (LcgA % Limb) + (LcgC % Limb)
      hi == (rng.hi * (LcgA % Limb) + rng.lo * (LcgA \div Limb)
             + (LcgC \div Limb) + t \div Limb) % Limb
  IN  [rng EXCEPT !.hi = hi, !.lo = t % Limb]

\* floor(w * this.seed / 2 ** 32): the value next() returns, times w (w < 2^15)
TimesNext(rng, w) == (rng.hi * w + (rng.lo * w) \div Limb) \div Limb

\* range(min, max): min + this.next() * (max - min); amounts in cents
range(rng, min, max) ==
  LET r == NextState(rng) IN [rng |-> r, value |-> min + TimesNext(r, max - min)]

RECURSIVE Normalize(_, _, _)
\* shifts the nonzero 32-bit value hi * Limb + lo left until its top bit is
\* set: the top 16 bits m and the number of shifts k, value = m * 2^(16 - k)
Normalize(hi, lo, k) ==
  IF hi >= Limb \div 2 THEN [m |-> hi, k |-> k]
  ELSE Normalize((hi * 2 + lo \div (Limb \div 2)) % Limb, (lo * 2) % Limb, k + 1)

\* -2 * Math.log(u) for u = seed / 2 ** 32 > 0, in units of 1/Fine
NegTwoLn(rng) ==
  LET n == Normalize(rng.hi, rng.lo, 0)
  IN  2 * n.k * Ln2 - 2 * LnMantissa(n.m)

\* the angle 2 * Math.PI * u in tenths of a degree, u = seed / 2 ** 32
Angle(rng) == TimesNext(rng, 3600)

\* a faulty normal(): the spare is stored but never used, every call makes a
\* fresh transform
normalWithoutSpare(rng, mean, stdDev) ==
  LET r1   == NextState(rng)
      r2   == NextState(r1)
      zero == r1.hi = 0 /\ r1.lo = 0
      rad  == IF zero THEN 0 ELSE Isqrt(NegTwoLn(r1) * 10)
      z0   == (rad * Cos(Angle(r2))) \div Scale
      z1   == (rad * Sin(Angle(r2))) \div Scale
  IN  [ rng    |-> [r2 EXCEPT !.hasSpare = TRUE, !.spareNormal = z1],
        value  |-> (z0 * stdDev) \div Fine + mean,
        finite |-> ~zero ]

\* normal(mean, stdDev): Box-Muller with a cached spare.  mean and the result
\* are in units of 1/Scale, stdDev in units of 1/(100 * Scale), the standard
\* normal variates z0, z1 in units of 1/1000.  finite is FALSE when u1 = 0
\* (Math.log(0) = -Infinity); value is then meaningless.
normal(rng, mean, stdDev) ==
  IF rng.hasSpare
  THEN [ rng    |-> [rng EXCEPT !.hasSpare = FALSE, !.spareNormal = 0],
         value  |-> (rng.spareNormal * stdDev) \div Fine + mean,
         finite |-> TRUE ]
  ELSE
    LET r1   == NextState(rng)
        r2   == NextState(r1)
        zero == r1.hi = 0 /\ r1.lo = 0
        rad  == IF zero THEN 0 ELSE Isqrt(NegTwoLn(r1) * 10)
        z0   == (rad * Cos(Angle(r2))) \div Scale
        z1   == (rad * Sin(Angle(r2))) \div Scale
    IN  [ rng    |-> [r2 EXCEPT !.hasSpare = TRUE, !.spareNormal = z1],
          value  |-> (z0 * stdDev) \div Fine + mean,
          finite |-> ~zero ]

\* a faulty createSeededRandom: the seed is taken from the clock, not from the
\* date argument
createSeededRandomAtClock(date) ==
  LET c == Civil(now.day)
  IN  SeededRandom(c.year * 10000 + (c.month + 1) * 100 + c.date)

\* a faulty createSeededRandom: getDay() (the day of the week, 0 for Sunday;
\* day 0 of the epoch was a Thursday) is used in place of getDate()
createSeededRandomByWeekday(date) ==
  LET c == Civil(date.day)
  IN  SeededRandom(c.year * 10000 + (c.month + 1) * 100 + ((date.day + 4) % 7))

\* createSeededRandom(date)
createSeededRandom(date) ==
  LET c == Civil(date.day)
  IN  SeededRandom(c.year * 10000 + (c.month + 1) * 100 + c.date)

-----------------------------------------------------------------------------
(* generateRealisticHistory                                                 *)

Granularities == {"daily", "weekly", "monthly", "quarterly"}

\* an optional number argument: `undefined`, or a number (amounts in cents)
Undefined == [defined |-> FALSE, value |-> 0]

Num(v) == [defined |-> TRUE, value |-> v]

\* intervalMs / msPerDay: the lookup in the object literal keyed by
\* granularity; 0 stands for the `undefined` an unknown key gives
IntervalDays(granularity) ==
  CASE granularity = "daily" -> 1
    [] granularity = "weekly" -> 7
    [] granularity = "monthly" -> 30
    [] granularity = "quarterly" -> 90
    [] OTHER -> 0

\* 365, the days of the year in periodYears and volatilityPerInterval
DaysPerYear == 365

\* a faulty numPoints: Math.round in place of Math.floor
NumPointsRounded(startDate, endDate, granularity) ==
  (2 * TimeDiff(endDate, startDate).days + IntervalDays(granularity))
    \div (2 * IntervalDays(granularity))

\* a faulty numPoints: Math.trunc in place of Math.floor
NumPointsTruncated(startDate, endDate, granularity) ==
  IF DateBefore(endDate, startDate)
  THEN 0 - (TimeDiff(startDate, endDate).days \div IntervalDays(granularity))
  ELSE TimeDiff(endDate, startDate).days \div IntervalDays(granularity)

\* numPoints = Math.floor(totalDuration / intervalMs), for a known granularity
NumPoints(startDate, endDate, granularity) ==
  TimeDiff(endDate, startDate).days \div IntervalDays(granularity)

\* targetNetWorth = targetEndNetWorth || currentTotals.currentNetWorth, in cents
TargetNetWorth(targetEndNetWorth) ==
  IF targetEndNetWorth.defined /\ targetEndNetWorth.value # 0
  THEN targetEndNetWorth.value
  ELSE currentTotals.currentNetWorth * Cent

\* targetLiabilities = currentTotals.totalLiabilities, in cents
TargetLiabilities == currentTotals.totalLiabilities * Cent

\* targetAssets = targetNetWorth + currentTotals.totalLiabilities, in cents
TargetAssets(targetEndNetWorth) ==
  TargetNetWorth(targetEndNetWorth) + currentTotals.totalLiabilities * Cent

\* periodYears = totalDuration / (365 * msPerDay), in units of 1/Scale
PeriodYears(startDate, endDate) ==
  LET d == TimeDiff(endDate, startDate)
  IN  (d.days * Scale + d.ms \div (MsPerDay \div Scale)) \div DaysPerYear

\* startingNetWorth = targetNetWorth / Math.pow(1 + totalGrowthRate, periodYears)
StartingNetWorth(startDate, endDate, targetEndNetWorth) ==
  MulDiv(TargetNetWorth(targetEndNetWorth), Scale, Pow(PeriodYears(startDate, endDate)))

\* volatility = 0.12, in units of 1/Scale
Volatility == 1200

\* volatilityPerInterval = volatility * Math.sqrt(intervalMs / (365 * msPerDay)),
\* in units of 1/(100 * Scale)
VolatilityPerInterval(granularity) ==
  (Volatility * Isqrt(((IntervalDays(granularity) * 1000000) \div DaysPerYear) * 100)) \div 100

\* the lower end of the clamp on currentLiabilities, in currency units
LiabilityFloor == 15000

\* the upper end of the clamp on currentLiabilities, in currency units
LiabilityCeiling == 20000

\* the bound of rng.range(-100, 100), in currency units
LiabilityJitter == 100

\* the factor of `currentLiabilities *= 0.9995`, in units of 1/Scale
LiabilityDecay == 9995

\* the monthly contribution, in currency units
Contribution == 1000

\* the rng of sample i after its rng.normal(...) call
RngAfterShock(date, granularity) ==
  normal(createSeededRandom(date), 0, VolatilityPerInterval(granularity) \div 2).rng

\* a faulty liabilities block: the clamp to the band is missing
LiabilityStepUnclamped(before, date, granularity) ==
  IF granularity = "monthly"
  THEN LET jitter == range(RngAfterShock(date, granularity),
                           0 - LiabilityJitter * Cent, LiabilityJitter * Cent).value
       IN  MulDiv(before, LiabilityDecay, Scale) + jitter
  ELSE before

\* a faulty liabilities block: the `granularity === "monthly"` test is missing
LiabilityStepEveryGranularity(before, date, granularity) ==
  LET jitter == range(RngAfterShock(date, granularity),
                      0 - LiabilityJitter * Cent, LiabilityJitter * Cent).value
  IN  Clamp(LiabilityFloor * Cent, LiabilityCeiling * Cent,
            MulDiv(before, LiabilityDecay, Scale) + jitter)

\* the liabilities block of one iteration, for the sample dated `date`:
\*   if (granularity === "monthly") { currentLiabilities *= 0.9995;
\*     currentLiabilities += rng.range(-100, 100);
\*     currentLiabilities = Math.max(15000, Math.min(20000, currentLiabilities)) }
\* from currentLiabilities = before (cents) to its value afterwards
LiabilityStep(before, date, granularity) ==
  IF granularity = "monthly"
  THEN LET jitter == range(RngAfterShock(date, granularity),
                           0 - LiabilityJitter * Cent, LiabilityJitter * Cent).value
       IN  Clamp(LiabilityFloor * Cent, LiabilityCeiling * Cent,
                 MulDiv(before, LiabilityDecay, Scale) + jitter)
  ELSE before

RECURSIVE LiabilityRun(_, _, _, _, _)
\* the values of currentLiabilities at the end of iterations a..b of the loop,
\* in order, when it is `before` at the start of iteration a (a <= b).  The
\* iterations are run in two halves, the second from where the first ended.
LiabilityRun(startDate, granularity, a, b, before) ==
  IF a = b
  THEN << LiabilityStep(before, AddDays(startDate, a * IntervalDays(granularity)),
                        granularity) >>
  ELSE LET mid   == (a + b) \div 2
           first == LiabilityRun(startDate, granularity, a, mid, before)
       IN  first \o LiabilityRun(startDate, granularity, mid + 1, b, first[Len(first)])

\* the values currentLiabilities takes over iterations 0..n of the loop, n >= 0:
\* trace[1] is the initial value targetLiabilities and trace[i + 2] the value
\* at the end of iteration i
LiabilityTrace(startDate, granularity, n) ==
  << TargetLiabilities >> \o LiabilityRun(startDate, granularity, 0, n, TargetLiabilities)

\* the values of iteration i < numPoints before rounding, in cents; trace is
\* the LiabilityTrace of the loop
SampleValues(startDate, endDate, granularity, targetEndNetWorth, i, trace) ==
  LET numPoints    == NumPoints(startDate, endDate, granularity)
      date         == AddDays(startDate, i * IntervalDays(granularity))
      rng          == createSeededRandom(date)
      \* progress * periodYears, progress = i / numPoints
      elapsed      == (i * PeriodYears(startDate, endDate)) \div numPoints
      targetProgressNetWorth ==
        MulDiv(StartingNetWorth(startDate, endDate, targetEndNetWorth), Pow(elapsed), Scale)
      c            == Civil(date.day)
      \* yearProgress * 2 * Math.PI = (month * 30 + date) degrees
      marketCycle  == (Sin(10 * (c.month * 30 + c.date)) * 200) \div Scale
      \* progress * 4 * Math.PI = 720 * i / numPoints degrees
      economicCycle == (Sin((7200 * i) \div numPoints) * 300) \div Scale
      randomShock  == normal(rng, 0, VolatilityPerInterval(granularity) \div 2).value
      variance     == Scale + marketCycle + economicCycle + randomShock
      currentNetWorth == MulDiv(targetProgressNetWorth, variance, Scale)
      contribution == IF granularity = "monthly" THEN Contribution * Cent ELSE 0
      currentAssets == currentNetWorth
                       + trace[i + 1]
                       + (contribution * i) \div numPoints
  IN  [ date |-> date,
        currentNetWorth |-> currentNetWorth,
        currentAssets |-> currentAssets,
        currentLiabilities |-> trace[i + 2] ]

\* a faulty SamplePoint: the last point keeps its sampled date
SamplePointUnforcedDate(startDate, endDate, granularity, targetEndNetWorth, i, trace) ==
  LET s == SampleValues(startDate, endDate, granularity, targetEndNetWorth, i, trace)
      v == IF i = NumPoints(startDate, endDate, granularity)
           THEN [ date |-> AddDays(startDate, i * IntervalDays(granularity)),
                  currentNetWorth |-> TargetNetWorth(targetEndNetWorth),
                  currentAssets |-> TargetAssets(targetEndNetWorth),
                  currentLiabilities |-> TargetLiabilities ]
           ELSE s
  IN  [ date |-> v.date,
        netWorth |-> MathRound(v.currentNetWorth),
        totalAssets |-> MathRound(v.currentAssets),
        totalLiabilities |-> MathRound(v.currentLiabilities) ]

\* the point pushed by iteration i of the loop, 0 <= i <= numPoints; trace is
\* the LiabilityTrace of the loop
SamplePoint(startDate, endDate, granularity, targetEndNetWorth, i, trace) ==
  LET v == IF i = NumPoints(startDate, endDate, granularity)
           THEN \* the last point is forced to the targets and to endDate
                [ date |-> endDate,
                  currentNetWorth |-> TargetNetWorth(targetEndNetWorth),
                  currentAssets |-> TargetAssets(targetEndNetWorth),
                  currentLiabilities |-> TargetLiabilities ]
           ELSE SampleValues(startDate, endDate, granularity, targetEndNetWorth, i, trace)
  IN  [ date |-> v.date,
        netWorth |-> MathRound(v.currentNetWorth),
        totalAssets |-> MathRound(v.currentAssets),
        totalLiabilities |-> MathRound(v.currentLiabilities) ]

\* generateRealisticHistory(startDate, endDate, granularity, targetEndNetWorth):
\* the loop `for (let i = 0; i <= numPoints; i++)`; with an unknown
\* granularity numPoints is NaN and the loop body never runs
generateRealisticHistory(startDate, endDate, granularity, targetEndNetWorth) ==
  IF granularity \notin Granularities THEN << >>
  ELSE LET numPoints == NumPoints(startDate, endDate, granularity)
           trace == IF numPoints < 0 THEN << >>
                    ELSE LiabilityTrace(startDate, granularity, numPoints)
       IN  [ k \in 1..(numPoints + 1) |->
               SamplePoint(startDate, endDate, granularity, targetEndNetWorth, k - 1, trace) ]

-----------------------------------------------------------------------------
(* getHistoricalData and the clock                                          *)

\* periodMap[period] || 365
PeriodDays(period) ==
  CASE period = "3months" -> 90
    [] period = "6months" -> 180
    [] period = "12months" -> 365
    [] period = "24months" -> 730
    [] period = "5years" -> 1825
    [] OTHER -> 365

\* getDaysAgo(days) when Date.now() reads the time t
getDaysAgo(t, days) == AddDays(t, 0 - days)

\* getHistoricalData(period, granularity): currentDate is read at time t0 and
\* getDaysAgo reads Date.now() at time t1, not earlier than t0
getHistoricalData(t0, t1, period, granularity) ==
  generateRealisticHistory(getDaysAgo(t1, PeriodDays(period)), t0, granularity, Undefined)

-----------------------------------------------------------------------------
(* Bounds and input sets                                                    *)

\* the day the clock starts at: 2024-12-31
BaseDay == 20088

\* the clock runs over BaseDay .. BaseDay + MaxClockDays
MaxClockDays == 1

\* and, within a day, over the milliseconds 0 .. MaxClockMs
MaxClockMs == 1

\* direct calls of the simulator span up to MaxSamples whole intervals
MaxSamples == 3

\* generated fixture sets have up to MaxAccounts accounts
MaxAccounts == 2

\* a span of k whole intervals plus this many days (less than one interval)
Remainders(granularity) == {0, IntervalDays(granularity) \div 2}

\* targetEndNetWorth arguments, in cents: omitted, zero, negative, whole, fractional
Targets == {Undefined, Num(0), Num(0 - 5000000), Num(10000000), Num(100050)}

\* the query strings of GET /api/net-worth/history
PeriodStrings == {"3months", "12months", "10years"}

GranularityStrings == Granularities \cup {"hourly"}

NoCall ==
  [ op |-> "none", startDate |-> MkDate(0, 0), endDate |-> MkDate(0, 0),
    granularity |-> "", targetEndNetWorth |-> Undefined, period |-> "" ]

\* no call kept: `later` tells whether the clock has advanced since the kept
\* call ran, `between` whether a call with other arguments ran since
NoSaved == [call |-> NoCall, points |-> << >>, later |-> FALSE, between |-> FALSE]

\* two invocations are in flight at the same time
Handlers == {1, 2}

\* concurrent simulator calls span up to MaxConcurrentSamples whole months
MaxConcurrentSamples == 2

\* no invocation in flight.  A frame holds the arguments and the local
\* variables i, currentLiabilities and points of generateRealisticHistory, or
\* the result of calculateCurrentTotals; `interleaved` tells whether the
\* invocation took a step while another one was in the middle of its loop
NoFrame ==
  [ op |-> "none", pc |-> "none", startDate |-> MkDate(0, 0), endDate |-> MkDate(0, 0),
    granularity |-> "", targetEndNetWorth |-> Undefined, i |-> 0,
    currentLiabilities |-> 0, points |-> << >>,
    totals |-> [totalAssets |-> 0, totalLiabilities |-> 0, currentNetWorth |-> 0],
    interleaved |-> FALSE ]

\* a caller holds up to two SeededRandom instances
Generators == {1, 2}

\* each instance is called up to MaxCalls times
MaxCalls == 3

\* no instance constructed.  An instance records how it was made (`source` is
\* "seed" for new SeededRandom(n) and "date" for createSeededRandom(date)),
\* the object as constructed (`seed`), the object as it is now (`rng`) and
\* the calls made on it with their arguments and results
NoInstance ==
  [ source |-> "none", date |-> MkDate(0, 0), seed |-> SeededRandom(0),
    rng |-> SeededRandom(0), calls |-> << >> ]

\* a query makes up to MaxFailures failed attempts
MaxFailures == 5

\* the web client before any request: the query is idle, with no failed
\* attempt (`errors`) and no retry delay waited (`delays`); the refresh
\* mutation is idle; no query family is invalidated
NoClient ==
  [ status |-> "idle", failureCount |-> 0, errors |-> << >>, delays |-> << >>,
    mutation |-> "idle", section |-> "", response |-> 0, failures |-> 0,
    invalidated |-> {}, invalidatedNow |-> {} ]

-----------------------------------------------------------------------------
(* Fixture sets                                                             *)

\* no response of GET /api/assets/performance is held
NoPerformance == [type |-> "", period |-> "", currentDate |-> MkDate(0, 0), data |-> << >>]

\* one depository account at 5000 and one credit account at 1200
ScenarioBalances ==
  << [id |-> "bal-1", accountId |-> "acc-1", balance |-> 5000, isCurrent |-> TRUE],
     [id |-> "bal-2", accountId |-> "acc-2", balance |-> 1200, isCurrent |-> TRUE] >>

ScenarioAccounts ==
  << [id |-> "acc-1", type |-> "depository", subtype |-> "checking", category |-> "cash",
      isManual |-> FALSE, plaidItemId |-> "item-1", plaidAccountId |-> "plaid-acc-1",
      solanaWalletId |-> NoReference, currentBalance |-> ScenarioBalances[1]],
     [id |-> "acc-2", type |-> "credit", subtype |-> "credit_card", category |-> "other",
      isManual |-> FALSE, plaidItemId |-> "item-1", plaidAccountId |-> "plaid-acc-2",
      solanaWalletId |-> NoReference, currentBalance |-> ScenarioBalances[2]] >>

Fixture(accs, bals) == [accounts |-> accs, balances |-> bals]

\* the fixture sets the simulator is run against
ShippedFixtures ==
  { Fixture(ApiAccounts, ApiBalances), Fixture(WebAccounts, WebBalances),
    Fixture(ScenarioAccounts, ScenarioBalances) }

-----------------------------------------------------------------------------
(* validateDataConsistency and the module-level values it reads             *)

\* the time the module is loaded at
LoadTime == MkDate(BaseDay, 0)

\* a faulty mockNetWorthSummary: the figures are written out, as in the
\* comments beside them, instead of being taken from currentTotals
mockNetWorthSummaryWrittenOut ==
  [ currentNetWorth |-> 525500, totalAssets |-> 543000, totalLiabilities |-> 17500 ]

\* mockNetWorthSummary = getMockNetWorthSummary(), evaluated at module load
mockNetWorthSummary ==
  [ currentNetWorth |-> currentTotals.currentNetWorth,
    totalAssets |-> currentTotals.totalAssets,
    totalLiabilities |-> currentTotals.totalLiabilities ]

\* mockNetWorthHistory = getHistoricalData("12months", "monthly"), evaluated at
\* module load
mockNetWorthHistory == getHistoricalData(LoadTime, LoadTime, "12months", "monthly")

\* the fixed allocation values of calculateAssetAllocation
Stocks == 68000

Bonds == 17000

Retirement == 42500

\* a number that may be NaN or Infinity; tenths holds ten times a finite one
Finite(tenths) == [kind |-> "finite", tenths |-> tenths]

NaN == [kind |-> "NaN", tenths |-> 0]

Infinity == [kind |-> "Infinity", tenths |-> 0]

\* Math.round((value / totalAssets) * 1000) / 10, for value >= 0
Percentage(value, totalAssets) ==
  IF totalAssets = 0 THEN (IF value = 0 THEN NaN ELSE Infinity)
  ELSE Finite((2 * 1000 * value + totalAssets) \div (2 * totalAssets))

\* a + b on such numbers, both >= 0
Plus(a, b) ==
  IF a.kind = "NaN" \/ b.kind = "NaN" THEN NaN
  ELSE IF a.kind = "Infinity" \/ b.kind = "Infinity" THEN Infinity
  ELSE Finite(a.tenths + b.tenths)

\* calculateAssetAllocation(): the percentage of each entry, in the order of
\* the object's keys
calculateAssetAllocation ==
  LET breakdown == calculateAssetBreakdown(mockAccounts)
      totalAssets == currentTotals.totalAssets
  IN  << Percentage(breakdown.cash, totalAssets),
         Percentage(Stocks, totalAssets),
         Percentage(Bonds, totalAssets),
         Percentage(breakdown.property, totalAssets),
         Percentage(breakdown.vehicles, totalAssets),
         Percentage(Retirement, totalAssets),
         Percentage(breakdown.digitalAssets, totalAssets),
         Percentage(breakdown.preciousMetals, totalAssets) >>

RECURSIVE SumPercentages(_, _)
\* Object.values(allocation).reduce((sum, item) => sum + item.percentage, 0)
\* from index k on
SumPercentages(allocation, k) ==
  IF k > Len(allocation) THEN Finite(0)
  ELSE Plus(allocation[k], SumPercentages(allocation, k + 1))

\* Math.abs(a - b) > limit
Off(a, b, limit) == a - b > limit \/ b - a > limit

\* the tolerance of the historical check
HistoryTolerance == 1000

\* validateDataConsistency(): the errors pushed, in order, and isValid
validateDataConsistency ==
  LET calculatedTotals == calculateCurrentTotals(mockAccounts, mockAccountBalances)
      summaryTotals == mockNetWorthSummary
      history == mockNetWorthHistory
      lastHistoricalPoint == history[Len(history)]
      totalPercentage == SumPercentages(calculateAssetAllocation, 1)
      errors ==
        (IF Off(calculatedTotals.currentNetWorth, summaryTotals.currentNetWorth, 1)
         THEN << "Net worth mismatch" >> ELSE << >>)
        \o (IF Off(calculatedTotals.totalAssets, summaryTotals.totalAssets, 1)
            THEN << "Total assets mismatch" >> ELSE << >>)
        \o (IF Off(calculatedTotals.totalLiabilities, summaryTotals.totalLiabilities, 1)
            THEN << "Total liabilities mismatch" >> ELSE << >>)
        \o (IF Off(lastHistoricalPoint.netWorth, summaryTotals.currentNetWorth,
                   HistoryTolerance)
            THEN << "Historical data doesn't end at current net worth" >> ELSE << >>)
        \o (IF \/ totalPercentage.kind = "Infinity"
               \/ totalPercentage.kind = "finite" /\ Off(totalPercentage.tenths, 1000, 10)
            THEN << "Asset allocation percentages don't sum to 100%" >> ELSE << >>)
  IN  [ isValid |-> errors = << >>,
        errors |-> errors,
        lastHistoricalPoint |-> lastHistoricalPoint,
        totalAllocationPercentage |-> totalPercentage ]

-----------------------------------------------------------------------------
(* The state machine                                                        *)

\* a faulty module load: a newer current balance of the first balance's account
\* is added without unsetting the prior one
LoadKeepingStale(f) ==
  /\ mockAccounts = f.accounts
  /\ mockAccountBalances =
       IF f.balances = << >> THEN f.balances
       ELSE Append(f.balances, [f.balances[1] EXCEPT !.id = "bal-new", !.isCurrent = TRUE])
  /\ currentTotals = calculateCurrentTotals(f.accounts, f.balances)
  /\ totals = calculateCurrentTotals(f.accounts, f.balances)
  /\ assetBreakdown = calculateAssetBreakdown(f.accounts)
  /\ liabilityBreakdown = calculateLiabilityBreakdown(f.accounts)
  /\ now = MkDate(BaseDay, 0)
  /\ pc = "idle"
  /\ call = NoCall
  /\ points = << >>
  /\ saved = NoSaved
  /\ frames = [h \in Handlers |-> NoFrame]
  /\ instances = [g \in Generators |-> NoInstance]
  /\ client = NoClient
  /\ performance = NoPerformance

\* module load for the fixture set f: the module-level constants are computed
Load(f) ==
  /\ mockAccounts = f.accounts
  /\ mockAccountBalances = f.balances
  /\ currentTotals = calculateCurrentTotals(f.accounts, f.balances)
  /\ totals = calculateCurrentTotals(f.accounts, f.balances)
  /\ assetBreakdown = calculateAssetBreakdown(f.accounts)
  /\ liabilityBreakdown = calculateLiabilityBreakdown(f.accounts)
  /\ now = MkDate(BaseDay, 0)
  /\ pc = "idle"
  /\ call = NoCall
  /\ points = << >>
  /\ saved = NoSaved
  /\ frames = [h \in Handlers |-> NoFrame]
  /\ instances = [g \in Generators |-> NoInstance]
  /\ client = NoClient
  /\ performance = NoPerformance

Init == \E f \in ShippedFixtures : Load(f)

fixtureVars == << mockAccounts, mockAccountBalances, currentTotals, totals,
                  assetBreakdown, liabilityBreakdown >>

\* a millisecond passes between two requests
TickMs ==
  /\ pc = "idle"
  /\ now.ms < MaxClockMs
  /\ now' = MkDate(now.day, now.ms + 1)
  /\ saved' = IF saved = NoSaved THEN saved ELSE [saved EXCEPT !.later = TRUE]
  /\ UNCHANGED << fixtureVars, performance, frames, instances, pc, call, points, client >>

\* a day passes between two requests
TickDay ==
  /\ pc = "idle"
  /\ now.day < BaseDay + MaxClockDays
  /\ now' = AddDays(now, 1)
  /\ saved' = IF saved = NoSaved THEN saved ELSE [saved EXCEPT !.later = TRUE]
  /\ UNCHANGED << fixtureVars, performance, frames, instances, pc, call, points, client >>

\* a call generateRealisticHistory(startDate, endDate, granularity, targetEndNetWorth)
CallGenerate(startDate, endDate, granularity, targetEndNetWorth) ==
  /\ pc = "idle"
  /\ points' = generateRealisticHistory(startDate, endDate, granularity, targetEndNetWorth)
  /\ call' = [ op |-> "generateRealisticHistory", startDate |-> startDate,
               endDate |-> endDate, granularity |-> granularity,
               targetEndNetWorth |-> targetEndNetWorth, period |-> "" ]
  /\ pc' = "done"
  /\ saved' = IF saved = NoSaved \/ call' = saved.call THEN saved
              ELSE [saved EXCEPT !.between = TRUE]
  /\ UNCHANGED << fixtureVars, performance, frames, instances, now, client >>

\* generateRealisticHistory on every input of the bounded input sets: the end
\* date is the current time, the start date lies k whole intervals and r days
\* before it (k = -1: after it), at millisecond 0 or MaxClockMs of its day
GenerateRealisticHistory ==
  \E granularity \in Granularities, k \in (0 - 1)..MaxSamples,
     startMs \in {0, MaxClockMs}, targetEndNetWorth \in Targets :
    \E r \in Remainders(granularity) :
      CallGenerate(MkDate(now.day - (k * IntervalDays(granularity) + r), startMs),
                   now, granularity, targetEndNetWorth)

\* GET /api/net-worth/history?period=..&granularity=..: the handler passes the
\* query strings on unvalidated; the clock may advance between the two reads
GetHistoricalData ==
  \E period \in PeriodStrings, granularity \in GranularityStrings,
     t1 \in {now, MkDate(now.day, now.ms + 1)} :
    /\ pc = "idle"
    /\ t1.ms <= MaxClockMs
    /\ points' = getHistoricalData(now, t1, period, granularity)
    /\ call' = [ op |-> "getHistoricalData", startDate |-> getDaysAgo(t1, PeriodDays(period)),
                 endDate |-> now, granularity |-> granularity,
                 targetEndNetWorth |-> Undefined, period |-> period ]
    /\ now' = t1
    /\ pc' = "done"
    /\ UNCHANGED << fixtureVars, performance, frames, instances, saved, client >>

\* the caller has consumed the result
Return ==
  /\ pc = "done"
  /\ pc' = "idle"
  /\ call' = NoCall
  /\ points' = << >>
  /\ UNCHANGED << fixtureVars, performance, frames, instances, now, saved, client >>

\* POST /api/assets/refresh and POST /api/liabilities/refresh answer with a
\* fixed message and touch no data
PostRefresh ==
  \E section \in {"assets", "liabilities"} :
    /\ pc = "idle"
    /\ call' = [NoCall EXCEPT !.op = "refresh", !.period = section]
    /\ pc' = "done"
    /\ UNCHANGED << fixtureVars, performance, frames, instances, now, points, saved, client >>

\* GET /api/validate answers with validateDataConsistency()
GetValidate ==
  /\ pc = "idle"
  /\ call' = [NoCall EXCEPT !.op = "validateDataConsistency"]
  /\ pc' = "done"
  /\ UNCHANGED << fixtureVars, performance, frames, instances, now, points, saved, client >>

Next ==
  \/ TickMs
  \/ TickDay
  \/ GenerateRealisticHistory
  \/ GetHistoricalData
  \/ PostRefresh
  \/ GetValidate
  \/ Return

Spec == Init /\ [][Next]_vars

-----------------------------------------------------------------------------
(* Repeated calls: a call is kept and compared with a later call            *)

\* repeated direct calls span up to MaxRepeatSamples whole intervals
MaxRepeatSamples == 1

\* the result of a call is kept for comparison with later calls
Save ==
  /\ pc = "done"
  /\ saved = NoSaved
  /\ saved' = [call |-> call, points |-> points, later |-> FALSE, between |-> FALSE]
  /\ UNCHANGED << fixtureVars, performance, frames, instances, now, pc, call, points, client >>

\* generateRealisticHistory on the inputs used for repeated calls
GenerateAgain ==
  \E endDate \in {MkDate(BaseDay, 0), MkDate(BaseDay, MaxClockMs)},
     granularity \in Granularities, k \in 0..MaxRepeatSamples,
     targetEndNetWorth \in {Undefined, Num(10000000)} :
    CallGenerate(MkDate(endDate.day - k * IntervalDays(granularity), 0),
                 endDate, granularity, targetEndNetWorth)

InitRepeat == Load(Fixture(ApiAccounts, ApiBalances))

NextRepeat == TickMs \/ TickDay \/ GenerateAgain \/ Save \/ Return

SpecRepeat == InitRepeat /\ [][NextRepeat]_vars

-----------------------------------------------------------------------------
(* Generated fixture sets, for the aggregation layer                        *)

\* the (type, subtype, category) combinations of generated accounts
AccountKinds ==
  { [type |-> ACCOUNT_TYPES.MANUAL_ASSET, subtype |-> "asset", category |-> c] :
      c \in AccountCategorySet }
  \cup
  { [type |-> ACCOUNT_TYPES.DEPOSITORY, subtype |-> "checking", category |-> "cash"],
    [type |-> ACCOUNT_TYPES.INVESTMENT, subtype |-> "brokerage", category |-> "investment"],
    [type |-> ACCOUNT_TYPES.SOLANA_WALLET, subtype |-> "solana", category |-> "digital_asset"],
    [type |-> ACCOUNT_TYPES.CREDIT, subtype |-> "credit_card", category |-> "other"],
    [type |-> ACCOUNT_TYPES.LOAN, subtype |-> "mortgage", category |-> "other"],
    [type |-> ACCOUNT_TYPES.LOAN, subtype |-> "auto", category |-> "other"],
    [type |-> ACCOUNT_TYPES.MANUAL_LIABILITY, subtype |-> "personal", category |-> "other"] }

\* the balance of the j-th generated account
AmountOf(j) == CASE j = 1 -> 5000 [] j = 2 -> 1200 [] OTHER -> 100 * j

\* the one balance record of the j-th generated account
GenBalance(j, isCurrent) ==
  [ id |-> "bal-" \o ToString(j), accountId |-> "acc-" \o ToString(j),
    balance |-> AmountOf(j), isCurrent |-> isCurrent ]

\* the j-th generated account: of kind k, with a current balance or with an
\* old balance only
GenAccount(j, k, hasCurrent) ==
  [ id |-> "acc-" \o ToString(j), type |-> k.type, subtype |-> k.subtype,
    category |-> k.category, isManual |-> k.type \in {"manual_asset", "manual_liability"},
    plaidItemId |-> IF k.type \in {"depository", "investment", "credit", "loan"}
                    THEN "item-" \o ToString(j) ELSE NoReference,
    plaidAccountId |-> IF k.type \in {"depository", "investment", "credit", "loan"}
                       THEN "plaid-acc-" \o ToString(j) ELSE NoReference,
    solanaWalletId |-> IF k.type = "solana_wallet" THEN "solana-" \o ToString(j)
                       ELSE NoReference,
    currentBalance |-> IF hasCurrent THEN GenBalance(j, TRUE) ELSE NoBalance ]

\* a current balance whose accountId names no account
OrphanBalance ==
  [id |-> "bal-orphan", accountId |-> "acc-missing", balance |-> 900, isCurrent |-> TRUE]

\* the fixture set of n generated accounts, the j-th of kind g[j][1] and with
\* a current balance iff g[j][2], with or without a balance of a missing account
GeneratedFixture(n, g, orphan) ==
  Fixture([j \in 1..n |-> GenAccount(j, g[j][1], g[j][2])],
          [j \in 1..n |-> GenBalance(j, g[j][2])]
            \o (IF orphan THEN << OrphanBalance >> ELSE << >>))

\* GET /api/accounts/assets/breakdown, GET /api/accounts/liabilities/breakdown
\* and GET /api/dashboard/summary return the module-level values
GetModuleValue(op) ==
  /\ pc = "idle"
  /\ call' = [NoCall EXCEPT !.op = op]
  /\ pc' = "done"
  /\ UNCHANGED << fixtureVars, performance, frames, instances, now, points, saved, client >>

GetAssetBreakdown == GetModuleValue("assetBreakdown")

GetLiabilityBreakdown == GetModuleValue("liabilityBreakdown")

GetNetWorthSummary == GetModuleValue("getMockNetWorthSummary")

\* module load for a shipped fixture set or for any fixture set of up to
\* MaxAccounts generated accounts
InitAggregate ==
  \/ \E f \in ShippedFixtures : Load(f)
  \/ \E n \in 0..MaxAccounts :
       \E g \in [1..n -> AccountKinds \X BOOLEAN], orphan \in BOOLEAN :
         Load(GeneratedFixture(n, g, orphan))

NextAggregate == GetAssetBreakdown \/ GetLiabilityBreakdown \/ GetNetWorthSummary \/ Return

SpecAggregate == InitAggregate /\ [][NextAggregate]_vars

-----------------------------------------------------------------------------
(* Concurrent invocations: several calls of the simulator and of the       *)
(* aggregator are in flight at once and take their steps in any order.     *)
(* Each keeps its local variables in a frame of its own; the fixtures and  *)
(* currentTotals are the module-level values all of them read.             *)

\* a faulty read of the local currentLiabilities: the variable is shared by
\* all invocations, as a module-level `let` would be
currentLiabilitiesShared(h) == frames[1].currentLiabilities

\* the local `let currentLiabilities` of invocation h
currentLiabilitiesOf(h) == frames[h].currentLiabilities

\* some other invocation than h is in the middle of its loop
OthersInFlight(h) ==
  \E g \in Handlers \ {h} : frames[g].pc = "running" /\ frames[g].i >= 1

\* invocation h enters generateRealisticHistory: the locals are initialised
EnterGenerate(h, startDate, endDate, granularity, targetEndNetWorth) ==
  /\ frames[h].pc = "none"
  /\ frames' = [frames EXCEPT ![h] =
       [ NoFrame EXCEPT !.op = "generateRealisticHistory", !.pc = "running",
                        !.startDate = startDate, !.endDate = endDate,
                        !.granularity = granularity,
                        !.targetEndNetWorth = targetEndNetWorth,
                        !.currentLiabilities = TargetLiabilities ]]
  /\ UNCHANGED << fixtureVars, performance, now, pc, call, points, saved, instances, client >>

\* a request reaches the simulator while others are in flight
EnterSimulator ==
  \E h \in Handlers, granularity \in Granularities, k \in 1..MaxConcurrentSamples,
     targetEndNetWorth \in {Undefined, Num(10000000)} :
    EnterGenerate(h, MkDate(now.day - k * IntervalDays(granularity), 0), now,
                  granularity, targetEndNetWorth)

\* one iteration of the loop of invocation h; the last one returns the points
Iterate(h) ==
  LET f         == frames[h]
      numPoints == NumPoints(f.startDate, f.endDate, f.granularity)
      date      == AddDays(f.startDate, f.i * IntervalDays(f.granularity))
      before    == currentLiabilitiesOf(h)
      after     == LiabilityStep(before, date, f.granularity)
      trace     == ((f.i + 1) :> before) @@ ((f.i + 2) :> after)
      point     == SamplePoint(f.startDate, f.endDate, f.granularity,
                               f.targetEndNetWorth, f.i, trace)
  IN  /\ f.op = "generateRealisticHistory"
      /\ f.pc = "running"
      /\ f.i <= numPoints
      /\ frames' = [frames EXCEPT ![h] =
           [ f EXCEPT !.points = Append(f.points, point),
                      !.currentLiabilities =
                         IF f.i = numPoints THEN TargetLiabilities ELSE after,
                      !.i = f.i + 1,
                      !.pc = IF f.i = numPoints THEN "returned" ELSE "running",
                      !.interleaved = f.interleaved \/ OthersInFlight(h) ]]
      /\ UNCHANGED << fixtureVars, performance, now, pc, call, points, saved, instances, client >>

IterateSimulator == \E h \in Handlers : Iterate(h)

\* invocation h runs calculateCurrentTotals over the module's fixtures
Aggregate(h) ==
  /\ frames[h].pc = "none"
  /\ frames' = [frames EXCEPT ![h] =
       [ NoFrame EXCEPT !.op = "calculateCurrentTotals", !.pc = "returned",
                        !.totals = calculateCurrentTotals(mockAccounts, mockAccountBalances),
                        !.interleaved = OthersInFlight(h) ]]
  /\ UNCHANGED << fixtureVars, performance, now, pc, call, points, saved, instances, client >>

RunAggregator == \E h \in Handlers : Aggregate(h)

\* the caller of invocation h has consumed its result
Leave(h) ==
  /\ frames[h].pc = "returned"
  /\ frames' = [frames EXCEPT ![h] = NoFrame]
  /\ UNCHANGED << fixtureVars, performance, now, pc, call, points, saved, instances, client >>

LeaveHandler == \E h \in Handlers : Leave(h)

InitConcurrent == Load(Fixture(ApiAccounts, ApiBalances))

NextConcurrent == EnterSimulator \/ IterateSimulator \/ RunAggregator \/ LeaveHandler

SpecConcurrent == InitConcurrent /\ [][NextConcurrent]_vars

-----------------------------------------------------------------------------
(* SeededRandom instances held by a caller                                  *)

\* next(): the state is advanced and returned as a fraction of 2 ** 32; the
\* result is whole + (hi * Limb + lo) / 2 ** 32
next(rng) ==
  LET r == NextState(rng)
  IN  [rng |-> r, whole |-> 0, hi |-> r.hi, lo |-> r.lo]

RECURSIVE Bits(_)
\* the number of binary digits of m >= 0
Bits(m) == IF m = 0 THEN 0 ELSE 1 + Bits(m \div 2)

\* range(min, max) for whole numbers min < max with max - min < 2^15, as
\* double arithmetic computes min + this.next() * (max - min): the product is
\* exact; the sum is whole + (hi * Limb + lo) / 2 ** 32 exactly, and is rounded
\* to the 53 significant bits of a double, ties to even, which drops the last
\* `drop` of its 32 fraction bits
rangeDouble(rng, min, max) ==
  LET r     == NextState(rng)
      w     == max - min
      fhi   == (r.hi * w + (r.lo * w) \div Limb) % Limb
      flo   == (r.lo * w) % Limb
      whole == min + TimesNext(r, w)
      mag   == IF whole >= 0 THEN whole ELSE 0 - whole
      drop  == IF Bits(mag) + 32 > 53 THEN Bits(mag) + 32 - 53 ELSE 0
      unit  == 2 ^ drop
      q     == flo \div unit
      rest  == flo % unit
      up    == IF drop = 0 THEN 0
               ELSE IF 2 * rest > unit \/ (2 * rest = unit /\ q % 2 = 1) THEN 1
               ELSE 0
      lo    == (q + up) * unit
      hi    == fhi + lo \div Limb
  IN  [ rng |-> r, whole |-> whole + hi \div Limb, hi |-> hi % Limb, lo |-> lo % Limb ]

\* a faulty read of the instance's state: one `seed` field is shared by all
\* instances, as a static field would be
rngShared(g) == instances[1].rng

\* the fields seed and spareNormal of instance g
rngOf(g) == instances[g].rng

\* the seeds of new SeededRandom(seed): zero, the seed of 2024-12-31, and the
\* seeds whose first next() leaves the state at 0 and at 2 ** 32 - 1
Seeds == {0, 20241231, 634785765, 653637408}

\* the dates of createSeededRandom(date): 2024-12-31, 2025-01-01, 2025-01-08,
\* 2025-02-01 and 2026-01-01, each at its first and at its last millisecond
SeedDates ==
  { MkDate(BaseDay + d, ms) : d \in {0, 1, 8, 32, 366}, ms \in {0, MsPerDay - 1} }

\* the arguments of range(min, max)
RangeArguments == { << 0 - 100, 100 >>, << 0, 1 >>, << 1000000000, 1000000001 >> }

\* the arguments of normal(mean, stdDev), in the units of normal
NormalArguments ==
  { << 0, VolatilityPerInterval("daily") \div 2 >>,
    << Scale, VolatilityPerInterval("monthly") >> }

\* new SeededRandom(seed)
Construct(g, seed) ==
  /\ instances[g].source = "none"
  /\ instances' = [instances EXCEPT ![g] =
       [ NoInstance EXCEPT !.source = "seed", !.seed = SeededRandom(seed),
                           !.rng = SeededRandom(seed) ]]
  /\ UNCHANGED << fixtureVars, performance, now, pc, call, points, saved, frames, client >>

\* createSeededRandom(date)
CreateSeeded(g, date) ==
  /\ instances[g].source = "none"
  /\ instances' = [instances EXCEPT ![g] =
       [ NoInstance EXCEPT !.source = "date", !.date = date,
                           !.seed = createSeededRandom(date),
                           !.rng = createSeededRandom(date) ]]
  /\ UNCHANGED << fixtureVars, performance, now, pc, call, points, saved, frames, client >>

\* a call on instance g has returned: the object is updated and the call is
\* recorded with the object before and after it
Called(g, op, a, b, result, finite) ==
  /\ instances[g].source # "none"
  /\ Len(instances[g].calls) < MaxCalls
  /\ instances' = [instances EXCEPT ![g] =
       [ instances[g] EXCEPT
           !.rng = result.rng,
           !.calls = Append(instances[g].calls,
                            [ op |-> op, a |-> a, b |-> b, whole |-> result.whole,
                              hi |-> result.hi, lo |-> result.lo, finite |-> finite,
                              before |-> rngOf(g), after |-> result.rng ]) ]]
  /\ UNCHANGED << fixtureVars, performance, now, pc, call, points, saved, frames, client >>

\* instance g is called: next()
CallNext(g) == Called(g, "next", 0, 0, next(rngOf(g)), TRUE)

\* instance g is called: range(min, max)
CallRange(g, min, max) ==
  Called(g, "range", min, max, rangeDouble(rngOf(g), min, max), TRUE)

\* instance g is called: normal(mean, stdDev)
CallNormal(g, mean, stdDev) ==
  LET n == normal(rngOf(g), mean, stdDev)
  IN  Called(g, "normal", mean, stdDev,
             [rng |-> n.rng, whole |-> n.value, hi |-> 0, lo |-> 0], n.finite)

\* two instances are constructed and called in any order
ConstructAny == \E g \in Generators, seed \in Seeds : Construct(g, seed)

CreateSeededAny == \E g \in Generators, date \in SeedDates : CreateSeeded(g, date)

NextAny == \E g \in Generators : CallNext(g)

InitPair == Load(Fixture(ApiAccounts, ApiBalances))

NextPair == ConstructAny \/ CreateSeededAny \/ NextAny

SpecPair == InitPair /\ [][NextPair]_vars

\* one instance is constructed and called with every method in any order
ConstructFirst == \E seed \in Seeds : Construct(1, seed)

NextFirst == CallNext(1)

RangeFirst == \E m \in RangeArguments : CallRange(1, m[1], m[2])

NormalFirst == \E m \in NormalArguments : CallNormal(1, m[1], m[2])

InitRandom == Load(Fixture(ApiAccounts, ApiBalances))

NextRandom == ConstructFirst \/ NextFirst \/ RangeFirst \/ NormalFirst

SpecRandom == InitRandom /\ [][NextRandom]_vars

-----------------------------------------------------------------------------
(* Monthly series from a range of start dates                               *)

\* monthly series start on the days BaseDay .. BaseDay + MaxStartDays
MaxStartDays == 170

\* generateRealisticHistory(startDate, endDate, "monthly") for a start date
\* in the range and an end date k whole months later
GenerateMonthly ==
  \E d \in 0..MaxStartDays, k \in 1..MaxSamples :
    CallGenerate(MkDate(BaseDay + d, 0),
                 MkDate(BaseDay + d + k * IntervalDays("monthly"), 0),
                 "monthly", Undefined)

InitMonthly == \E f \in ShippedFixtures : Load(f)

NextMonthly == GenerateMonthly \/ Return

SpecMonthly == InitMonthly /\ [][NextMonthly]_vars

-----------------------------------------------------------------------------
(* The query client of the web application (queryClient, apiFetch).  An     *)
(* error message is the sequence of its characters.                         *)

\* message.includes(needle)
Includes(message, needle) ==
  \E i \in 1..(Len(message) - Len(needle) + 1) :
    SubSeq(message, i, i + Len(needle) - 1) = needle

\* the decimal digits
DigitChars == << "0", "1", "2", "3", "4", "5", "6", "7", "8", "9" >>

RECURSIVE Decimal(_)
\* `${n}` for an integer n >= 0
Decimal(n) ==
  IF n < 10 THEN << DigitChars[n + 1] >>
  ELSE Decimal(n \div 10) \o << DigitChars[(n % 10) + 1] >>

\* "HTTP error! status: "
HttpErrorPrefix ==
  << "H", "T", "T", "P", " ", "e", "r", "r", "o", "r", "!", " ", "s",
     "t", "a", "t", "u", "s", ":", " " >>

\* the error apiFetch throws for a response that is not ok:
\* new Error(`HTTP error! status: ${response.status}`)
HttpError(status) == [isError |-> TRUE, message |-> HttpErrorPrefix \o Decimal(status)]

\* the TypeError fetch rejects with when the request cannot be made, as
\* Chromium words it: "Failed to fetch"
FailedToFetch ==
  [ isError |-> TRUE,
    message |->
      << "F", "a", "i", "l", "e", "d", " ", "t", "o", " ", "f", "e",
         "t", "c", "h" >> ]

\* the same as Firefox words it:
\* "NetworkError when attempting to fetch resource."
NetworkError ==
  [ isError |-> TRUE,
    message |->
      << "N", "e", "t", "w", "o", "r", "k", "E", "r", "r", "o", "r",
         " ", "w", "h", "e", "n", " ", "a", "t", "t", "e", "m", "p",
         "t", "i", "n", "g", " ", "t", "o", " ", "f", "e", "t", "c",
         "h", " ", "r", "e", "s", "o", "u", "r", "c", "e", "." >> ]

\* the same as Safari words it: "Load failed"
LoadFailed ==
  [ isError |-> TRUE,
    message |->
      << "L", "o", "a", "d", " ", "f", "a", "i", "l", "e", "d" >> ]

\* a thrown value that is not an Error
NotAnError == [isError |-> FALSE, message |-> << >>]

\* the needles of the retry predicate
Four == << "4" >>

Status == << "s", "t", "a", "t", "u", "s" >>

Network == << "N", "e", "t", "w", "o", "r", "k" >>

Fetch == << "f", "e", "t", "c", "h" >>

\* a faulty retry option: the number 3, every error is retried three times
retryThreeTimes(failureCount, error) == failureCount < 3

\* a faulty retry predicate: network errors are retried while
\* failureCount <= 3
retryOnceMore(failureCount, error) ==
  IF error.isError
  THEN IF Includes(error.message, Four) /\ Includes(error.message, Status) THEN FALSE
       ELSE IF Includes(error.message, Network) \/ Includes(error.message, Fetch)
         THEN failureCount <= 3
       ELSE FALSE
  ELSE FALSE

\* defaultOptions.queries.retry: (failureCount, error) => ...
retry(failureCount, error) ==
  IF error.isError
  THEN IF Includes(error.message, Four) /\ Includes(error.message, Status) THEN FALSE
       ELSE IF Includes(error.message, Network) \/ Includes(error.message, Fetch)
         THEN failureCount < 3
       ELSE FALSE
  ELSE FALSE

\* defaultOptions.queries.retryDelay:
\* (attemptIndex) => Math.min(1000 * 2 ** attemptIndex, 30000)
retryDelay(attemptIndex) == Min(1000 * 2 ^ attemptIndex, 30000)

\* the errors an attempt of a query fails with: HTTP statuses of apiFetch,
\* the rejections of fetch, and a value that is not an Error
QueryErrors ==
  { HttpError(n) : n \in {400, 404, 499, 500, 504} }
  \cup {FailedToFetch, NetworkError, LoadFailed, NotAnError}

\* a component mounts the query: the first attempt starts
StartQuery ==
  /\ client.status = "idle"
  /\ client' = [client EXCEPT !.status = "fetching"]
  /\ UNCHANGED << fixtureVars, performance, now, pc, call, points, saved, frames, instances >>

\* an attempt fails with `error`: the client asks retry(failureCount, error)
\* with the number of failures before this one and, on true, counts the
\* failure and waits retryDelay(failureCount) before the next attempt
AttemptFails(error) ==
  /\ client.status = "fetching"
  /\ Len(client.errors) < MaxFailures
  /\ client' =
       IF retry(client.failureCount, error)
       THEN [client EXCEPT !.status = "waiting",
                           !.failureCount = client.failureCount + 1,
                           !.errors = Append(client.errors, error),
                           !.delays = Append(client.delays,
                                             retryDelay(client.failureCount))]
       ELSE [client EXCEPT !.status = "error",
                           !.errors = Append(client.errors, error)]
  /\ UNCHANGED << fixtureVars, performance, now, pc, call, points, saved, frames, instances >>

AttemptFailsAny == \E error \in QueryErrors : AttemptFails(error)

\* the retry delay has passed: the next attempt starts
RetryTimer ==
  /\ client.status = "waiting"
  /\ client' = [client EXCEPT !.status = "fetching"]
  /\ UNCHANGED << fixtureVars, performance, now, pc, call, points, saved, frames, instances >>

\* an attempt succeeds
AttemptSucceeds ==
  /\ client.status = "fetching"
  /\ client' = [client EXCEPT !.status = "success"]
  /\ UNCHANGED << fixtureVars, performance, now, pc, call, points, saved, frames, instances >>

\* the component unmounts and the query is removed
RemoveQuery ==
  /\ client.status \in {"success", "error"}
  /\ client' = NoClient
  /\ UNCHANGED << fixtureVars, performance, now, pc, call, points, saved, frames, instances >>

InitQuery == Load(Fixture(ApiAccounts, ApiBalances))

NextQuery ==
  StartQuery \/ AttemptFailsAny \/ RetryTimer \/ AttemptSucceeds \/ RemoveQuery

SpecQuery == InitQuery /\ [][NextQuery]_vars

\* every attempt ends and every retry delay passes
SpecQueryLive ==
  /\ InitQuery
  /\ [][NextQuery]_vars
  /\ WF_vars(AttemptFailsAny \/ AttemptSucceeds)
  /\ WF_vars(RetryTimer)

-----------------------------------------------------------------------------
(* The refresh mutation of the web application (useRefreshSection)          *)

\* the top-level names of queryKeys
QueryFamilies ==
  {"dashboard", "accounts", "assets", "liabilities", "export", "settings", "netWorth"}

\* the argument of the mutation; "undefined" when it is omitted
Sections == {"undefined", "all", "dashboard", "accounts", "assets", "liabilities"}

\* the path mutationFn posts to, under API_BASE_URL
RefreshPath(section) ==
  CASE section \in {"undefined", "all", "dashboard"} -> "/refresh"
    [] section = "accounts" -> "/accounts/refresh"
    [] section = "assets" -> "/assets/refresh"
    [] section = "liabilities" -> "/liabilities/refresh"

\* the refresh routes the API server has
RefreshRoutes == {"/assets/refresh", "/liabilities/refresh"}

\* the statuses the server may answer a POST to `path` with: 200 or a server
\* error from a route it has, 404 for any other path
ResponseStatuses(path) == IF path \in RefreshRoutes THEN {200, 500} ELSE {404}

\* response.ok
Ok(status) == 200 <= status /\ status <= 299

\* the families onSuccess invalidates for the mutation argument `section`
onSuccess(section) ==
  IF section \in {"undefined", "all"}
  THEN {"dashboard", "accounts", "assets", "liabilities", "netWorth"}
  ELSE {section}

\* mutate(section): mutationFn starts its fetch
Mutate ==
  \E section \in Sections :
    /\ client.mutation = "idle"
    /\ client' = [client EXCEPT !.mutation = "pending", !.section = section,
                                !.response = 0, !.failures = 0,
                                !.invalidatedNow = {}]
    /\ UNCHANGED << fixtureVars, performance, now, pc, call, points, saved, frames, instances >>

\* the server answers: fetch resolves whatever the status, the refresh
\* functions do not look at the response, mutationFn returns and onSuccess
\* runs
FetchResolves ==
  /\ client.mutation = "pending"
  /\ \E status \in ResponseStatuses(RefreshPath(client.section)) :
       client' = [client EXCEPT !.mutation = "success", !.response = status,
                                !.invalidatedNow = onSuccess(client.section),
                                !.invalidated = client.invalidated
                                                  \cup onSuccess(client.section)]
  /\ UNCHANGED << fixtureVars, performance, now, pc, call, points, saved, frames, instances >>

\* the server cannot be reached: fetch rejects, mutationFn throws; the
\* mutation is retried once (mutations.retry: 1) and then fails
FetchRejects ==
  /\ client.mutation = "pending"
  /\ client' = IF client.failures < 1
               THEN [client EXCEPT !.failures = client.failures + 1]
               ELSE [client EXCEPT !.mutation = "error"]
  /\ UNCHANGED << fixtureVars, performance, now, pc, call, points, saved, frames, instances >>

\* the mutation is reset
ResetMutation ==
  /\ client.mutation \in {"success", "error"}
  /\ client' = [client EXCEPT !.mutation = "idle"]
  /\ UNCHANGED << fixtureVars, performance, now, pc, call, points, saved, frames, instances >>

\* the queries of an invalidated family are fetched again
Refetch ==
  \E family \in client.invalidated :
    /\ client.mutation = "idle"
    /\ client' = [client EXCEPT !.invalidated = client.invalidated \ {family}]
    /\ UNCHANGED << fixtureVars, performance, now, pc, call, points, saved, frames, instances >>

InitRefresh == Load(Fixture(ApiAccounts, ApiBalances))

NextRefresh == Mutate \/ FetchResolves \/ FetchRejects \/ ResetMutation \/ Refetch

SpecRefresh == InitRefresh /\ [][NextRefresh]_vars

-----------------------------------------------------------------------------
(* Asset and liability classification in the web client                     *)

\* isAssetAccount(type) of the web utilities
isAssetAccount(type) ==
  type \in { ACCOUNT_TYPES.DEPOSITORY, ACCOUNT_TYPES.INVESTMENT,
             ACCOUNT_TYPES.MANUAL_ASSET, ACCOUNT_TYPES.SOLANA_WALLET }

\* isLiabilityAccount(type) of the web utilities
isLiabilityAccount(type) ==
  type \in { ACCOUNT_TYPES.CREDIT, ACCOUNT_TYPES.LOAN, ACCOUNT_TYPES.MANUAL_LIABILITY }

\* the type strings the filter of useAssetAccounts keeps
AssetAccountsFilter == { "depository", "investment", "manual_asset", "solana_wallet" }

\* the type strings the filter of useLiabilityAccounts keeps
LiabilityAccountsFilter == { "credit", "loan", "mortgage" }

\* the queryFn of useAssetAccounts applied to the account list
useAssetAccounts(accounts) ==
  SelectSeq(accounts, LAMBDA account : account.type \in AssetAccountsFilter)

\* the queryFn of useLiabilityAccounts applied to the account list
useLiabilityAccounts(accounts) ==
  SelectSeq(accounts, LAMBDA account : account.type \in LiabilityAccountsFilter)

-----------------------------------------------------------------------------
(* getMockAssetPerformance and GET /api/assets/performance                  *)

\* the targetEndNetWorth each per-asset series is generated with, in dollars
AssetTargets ==
  [ stocks |-> 68000, bonds |-> 17000, realEstate |-> 350000, retirement |-> 42500,
    bitcoin |-> 25000, ethereum |-> 15000, nfts |-> 11000, gold |-> 20000,
    silver |-> 8000, solana |-> 12000, splTokens |-> 8500, solanaNFTs |-> 15000 ]

\* the share of the net worth shown as cash, in dollars
CashTarget == 37500

\* the keys of the object getMockAssetPerformance returns
AssetTypes == DOMAIN AssetTargets \cup {"cash"}

\* the series whose map() copies the point and adds assetType and benchmark
PlainAssets == {"stocks", "bonds", "realEstate", "retirement"}

\* the stdDev of the rng.normal(0, stdDev) call of a series, in units of
\* 1/(100 * Scale)
AssetStdDev ==
  [ bitcoin |-> 150000, ethereum |-> 180000, nfts |-> 250000, gold |-> 80000,
    silver |-> 120000, solana |-> 200000, splTokens |-> 150000, solanaNFTs |-> 300000 ]

\* the cycle term of a series at the given index, in units of 1/Scale
AssetCycle(assetType, index) ==
  CASE assetType = "bitcoin"    -> Sin(index * 300) \div 10
    [] assetType = "ethereum"   -> (Cos(index * 450) * 8) \div 100
    [] assetType = "nfts"       -> IF index % 4 = 0 THEN 3000 ELSE 0
    [] assetType = "gold"       -> (Sin(index * 150) * 5) \div 100
    [] assetType = "silver"     -> (Cos(index * 300) * 6) \div 100
    [] assetType = "solana"     -> (Cos(index * 225) * 12) \div 100
    [] assetType = "splTokens"  -> (Sin(index * 375) * 8) \div 100
    [] assetType = "solanaNFTs" -> IF index % 3 = 0 THEN 2500 ELSE 0

\* Math.round(value * (1 + factor)), value in dollars, factor in units of 1/Scale
ScaledRound(value, factor) == MathRound(MulDiv(value * Cent, Scale + factor, Scale))

\* the map() callback of the series with extra volatility: a generator seeded
\* from point.date gives one normal variate, the cycle term is added, and
\* netWorth and totalAssets are both scaled by one plus their sum
PerturbedPoint(assetType, point, index) ==
  LET rng    == createSeededRandom(point.date)
      factor == normal(rng, 0, AssetStdDev[assetType]).value + AssetCycle(assetType, index)
  IN  [ date |-> point.date,
        netWorth |-> ScaledRound(point.netWorth, factor),
        totalAssets |-> ScaledRound(point.totalAssets, factor),
        totalLiabilities |-> point.totalLiabilities,
        assetType |-> assetType ]

\* floor(CashTarget * Cent * a / c) for 0 <= a and 0 < c < 10 ^ 7, multiplying
\* the remainder by the factors 150, 125 and 200 of CashTarget * Cent in turn
TimesOver(a, c) ==
  LET r1 == (a % c) * 150
      r2 == (r1 % c) * 125
      r3 == (r2 % c) * 200
  IN  (a \div c) * (CashTarget * Cent)
        + ((r1 \div c) * 125 + r2 \div c) * 200 + r3 \div c

\* Math.round((37500 / currentTotals.currentNetWorth) * netWorth); +-Infinity
\* or NaN when currentNetWorth is 0
CashShare(netWorth) ==
  LET total == currentTotals.currentNetWorth
      sign  == IF (netWorth < 0) = (total < 0) THEN 1 ELSE 0 - 1
      abs(x) == IF x < 0 THEN 0 - x ELSE x
  IN  IF total = 0 THEN NaN
      ELSE sign * MathRound(TimesOver(abs(netWorth), abs(total)))

\* the map() callback of the cash series
CashPoint(point) ==
  [ date |-> point.date,
    netWorth |-> CashShare(point.netWorth),
    totalAssets |-> CashShare(point.netWorth),
    totalLiabilities |-> 0,
    assetType |-> "cash" ]

\* the series an entry of getMockAssetPerformance() maps: currentDate is read
\* at time t0, getDaysAgo(365) and the getHistoricalData call of cash read the
\* clock at t1, not earlier than t0
SourceHistory(assetType, t0, t1) ==
  IF assetType = "cash"
  THEN getHistoricalData(t1, t1, "12months", "monthly")
  ELSE generateRealisticHistory(getDaysAgo(t1, 365), t0, "monthly",
                                Num(AssetTargets[assetType] * Cent))

\* the map() callback of an entry.  benchmark, a figure derived from each
\* point's netWorth, is left out.
MapPoint(assetType, point, index) ==
  IF assetType = "cash" THEN CashPoint(point)
  ELSE IF assetType \in PlainAssets
  THEN [ date |-> point.date,
         netWorth |-> point.netWorth,
         totalAssets |-> point.totalAssets,
         totalLiabilities |-> point.totalLiabilities,
         assetType |-> assetType ]
  ELSE PerturbedPoint(assetType, point, index)

\* one entry of getMockAssetPerformance(): the source series is generated
\* once and then mapped point by point
AssetSeries(assetType, t0, t1) ==
  CHOOSE series \in { [ k \in DOMAIN history |-> MapPoint(assetType, history[k], k - 1) ] :
                        history \in { SourceHistory(assetType, t0, t1) } } : TRUE

\* getMockAssetPerformance()
getMockAssetPerformance(t0, t1) ==
  [ assetType \in AssetTypes |-> AssetSeries(assetType, t0, t1) ]

\* the values of the query parameter `type`: absent ("all" by default), each
\* key of getMockAssetPerformance(), and a string that is no key
TypeStrings == AssetTypes \cup {"all", "unknown"}

\* GET /api/assets/performance?period=..&type=..: "all" answers with the
\* monthly history with netWorth replaced by totalAssets, a key of
\* getMockAssetPerformance() with that series, anything else with []; the
\* clock may advance between the reads of currentDate and of getDaysAgo
GetAssetPerformance ==
  \E type \in TypeStrings, period \in PeriodStrings,
     t1 \in {now, MkDate(now.day, now.ms + 1)} :
    /\ pc = "idle"
    /\ t1.ms <= MaxClockMs
    /\ type # "all" => period = "12months"
    /\ \E data \in { IF type = "all" THEN getHistoricalData(now, t1, period, "monthly")
                     ELSE IF type \in AssetTypes THEN getMockAssetPerformance(now, t1)[type]
                     ELSE << >> } :
         performance' =
           [ type |-> type, period |-> period, currentDate |-> now,
             data |-> IF type = "all"
                      THEN [ k \in DOMAIN data |->
                               [ date |-> data[k].date,
                                 netWorth |-> data[k].totalAssets,
                                 totalAssets |-> data[k].totalAssets,
                                 totalLiabilities |-> 0 ] ]
                      ELSE data ]
    /\ now' = t1
    /\ pc' = "done"
    /\ call' = [NoCall EXCEPT !.op = "getMockAssetPerformance", !.period = period]
    /\ UNCHANGED << fixtureVars, frames, instances, points, saved, client >>

\* the caller has consumed the asset performance response
ReturnPerformance ==
  /\ pc = "done"
  /\ performance # NoPerformance
  /\ pc' = "idle"
  /\ call' = NoCall
  /\ performance' = NoPerformance
  /\ UNCHANGED << fixtureVars, frames, instances, now, points, saved, client >>

InitPerformance == \E f \in ShippedFixtures : Load(f)

NextPerformance == TickMs \/ TickDay \/ GetAssetPerformance \/ ReturnPerformance

SpecPerformance == InitPerformance /\ [][NextPerformance]_vars

-----------------------------------------------------------------------------
(* Properties                                                               *)

\* a call of the simulator has returned a series for a known granularity
Generated ==
  /\ pc = "done"
  /\ call.op \in {"generateRealisticHistory", "getHistoricalData"}
  /\ call.granularity \in Granularities

\* the target the caller asked for, in cents: the argument when one is given,
\* the current net worth when it is omitted
RequestedTarget ==
  IF call.targetEndNetWorth.defined THEN call.targetEndNetWorth.value
  ELSE currentTotals.currentNetWorth * Cent

\* the point p carries exactly the requested target and the end date
AtRequestedTarget(p) ==
  /\ p.netWorth * Cent = RequestedTarget
  /\ p.totalAssets * Cent = RequestedTarget + currentTotals.totalLiabilities * Cent
  /\ p.totalLiabilities = currentTotals.totalLiabilities
  /\ p.date = call.endDate

\* C1: endpoint exactness. For every series generateRealisticHistory returns
\* with endDate >= startDate, and every requested targetEndNetWorth, the last
\* point has netWorth equal to the requested target, totalAssets equal to the
\* target plus the current liability total, totalLiabilities equal to the
\* current liability total and date equal to endDate, exactly.
C1_EndpointExactness ==
  (Generated /\ ~DateBefore(call.endDate, call.startDate)) =>
    /\ Len(points) >= 1
    /\ AtRequestedTarget(points[Len(points)])

AssetBucketSum(b) ==
  b.cash + b.investments + b.property + b.vehicles + b.preciousMetals + b.digitalAssets
  + b.other

\* the sum of the four liability-breakdown buckets
LiabilityBucketSum(b) == b.creditCards + b.mortgages + b.loans + b.other

\* |a - b| <= 1
WithinOne(a, b) == a - b <= 1 /\ b - a <= 1

\* C3: breakdown consistency. For any set of accounts and balances the seven
\* asset-breakdown buckets sum to totalAssets of calculateCurrentTotals and the
\* four liability-breakdown buckets sum to totalLiabilities, within 1 unit of
\* currency.
C3_BreakdownConsistency ==
  /\ WithinOne(AssetBucketSum(assetBreakdown), totals.totalAssets)
  /\ WithinOne(LiabilityBucketSum(liabilityBreakdown), totals.totalLiabilities)

RECURSIVE SumCurrentOfTypes(_, _)
\* the sum of the isCurrent balances, from index k on, whose account has one of
\* the types
SumCurrentOfTypes(types, k) ==
  IF k > Len(mockAccountBalances) THEN 0
  ELSE LET b == mockAccountBalances[k]
           a == FindAccountById(mockAccounts, b.accountId)
       IN  (IF b.isCurrent /\ a # NoAccount /\ a.type \in types THEN b.balance ELSE 0)
           + SumCurrentOfTypes(types, k + 1)

\* C4: current totals. calculateCurrentTotals sums every isCurrent balance
\* into totalAssets when its account's type is depository, investment,
\* manual_asset or solana_wallet, into totalLiabilities when the type is credit
\* or loan, and returns currentNetWorth = totalAssets - totalLiabilities.
C4_CurrentTotals ==
  /\ totals.totalAssets =
       SumCurrentOfTypes({"depository", "investment", "manual_asset", "solana_wallet"}, 1)
  /\ totals.totalLiabilities = SumCurrentOfTypes({"credit", "loan"}, 1)
  /\ totals.currentNetWorth = totals.totalAssets - totals.totalLiabilities

\* C5: every point of every series generateRealisticHistory produces, for all
\* four granularities and every sample index, satisfies
\* netWorth = totalAssets - totalLiabilities.
C5_NetWorthIdentity ==
  Generated =>
    \A i \in DOMAIN points :
      points[i].netWorth = points[i].totalAssets - points[i].totalLiabilities

\* C6: non-negativity. Every point of every series generateRealisticHistory
\* produces has totalAssets >= 0 and totalLiabilities >= 0.
C6_NonNegativity ==
  Generated =>
    \A i \in DOMAIN points : points[i].totalAssets >= 0 /\ points[i].totalLiabilities >= 0

\* C7: series length. For endDate >= startDate and a known granularity the
\* series has exactly N + 1 points, N the number of whole intervals that fit
\* between startDate and endDate: startDate + N * interval <= endDate <
\* startDate + (N + 1) * interval; monthly over exactly 365 days gives 12 to 13
\* points.
C7_SeriesLength ==
  (Generated /\ ~DateBefore(call.endDate, call.startDate)) =>
    LET n == Len(points) - 1
        interval == IntervalDays(call.granularity)
    IN  /\ n >= 0
        /\ ~DateBefore(call.endDate, AddDays(call.startDate, n * interval))
        /\ DateBefore(call.endDate, AddDays(call.startDate, (n + 1) * interval))
        /\ (call.granularity = "monthly" /\ AddDays(call.startDate, 365) = call.endDate)
             => Len(points) \in {12, 13}

\* a monthly series over exactly 365 days has been returned, with 13 points
C7_Witness ==
  /\ Generated
  /\ call.granularity = "monthly"
  /\ AddDays(call.startDate, 365) = call.endDate
  /\ Len(points) = 13

\* the dates of the series are strictly increasing and the last is the end date
Chronological ==
  /\ \A i \in DOMAIN points : i > 1 => DateBefore(points[i - 1].date, points[i].date)
  /\ points # << >> => points[Len(points)].date = call.endDate

\* C8 as stated: in every series the dates are strictly increasing, the first
\* date is startDate and the last date is endDate.
C8_ChronologicalFromStart ==
  (Generated /\ points # << >>) =>
    /\ Chronological
    /\ points[1].date = call.startDate

\* C8: chronological order. In every series the dates are strictly increasing
\* and the last date is endDate; the first date is startDate whenever the
\* series has more than one point, and a series of one point is dated endDate.
C8_ChronologicalOrder ==
  (Generated /\ points # << >>) =>
    /\ Chronological
    /\ Len(points) > 1 => points[1].date = call.startDate

\* a series of at least three points has been returned whose end date lies
\* after the last whole interval
C8_Witness ==
  /\ Generated
  /\ Len(points) >= 3
  /\ DateBefore(AddDays(call.startDate, (Len(points) - 1) * IntervalDays(call.granularity)),
                call.endDate)

\* C9: zero-length range. When startDate equals endDate the series has length
\* 1 and its single point is exactly the target: netWorth, totalAssets and
\* totalLiabilities equal the target values and the date equals endDate, for
\* every granularity.
C9_ZeroLengthRange ==
  (Generated /\ call.startDate = call.endDate) =>
    /\ Len(points) = 1
    /\ AtRequestedTarget(points[1])

\* C10: degenerate range. When startDate is at or after endDate the series is
\* a single point or empty (empty when startDate is after endDate), holds no
\* point dated before startDate, and the call returns.
C10_DegenerateRange ==
  (Generated /\ ~DateBefore(call.startDate, call.endDate)) =>
    /\ Len(points) <= 1
    /\ DateBefore(call.endDate, call.startDate) => points = << >>
    /\ \A i \in DOMAIN points : ~DateBefore(points[i].date, call.startDate)

\* a call whose startDate lies less than a day after its endDate has returned
\* the empty series
C10_Witness ==
  /\ Generated
  /\ DateBefore(call.endDate, call.startDate)
  /\ call.startDate.day = call.endDate.day
  /\ points = << >>

\* C11: unknown granularity. A granularity string outside {daily, weekly,
\* monthly, quarterly} arriving through GET /api/net-worth/history makes the
\* simulator fail or default explicitly: a request that returns normally does
\* not return the empty series, which reads as 'no data'.
C11_UnknownGranularity ==
  (pc = "done" /\ call.op = "getHistoricalData" /\ call.granularity \notin Granularities)
    => points # << >>

\* the account has a balance marked isCurrent
HasCurrentBalance(acc) ==
  \E k \in DOMAIN mockAccountBalances :
    mockAccountBalances[k].isCurrent /\ mockAccountBalances[k].accountId = acc.id

\* the accounts that have a balance marked isCurrent
AccountsWithCurrent == SelectSeq(mockAccounts, HasCurrentBalance)

\* the balance is current and belongs to an account of mockAccounts
IsCountedBalance(b) == b.isCurrent /\ FindAccountById(mockAccounts, b.accountId) # NoAccount

\* the current balances of existing accounts
CountedBalances == SelectSeq(mockAccountBalances, IsCountedBalance)

CurrentBalancesOf(accountId) ==
  { k \in DOMAIN mockAccountBalances :
      mockAccountBalances[k].isCurrent /\ mockAccountBalances[k].accountId = accountId }

\* C13: in every reachable state of the server, after module load and after
\* any sequence of requests, each account id has at most one balance in
\* mockAccountBalances with isCurrent = true.
C13_OneCurrentBalance ==
  \A k \in DOMAIN mockAccountBalances :
    Cardinality(CurrentBalancesOf(mockAccountBalances[k].accountId)) <= 1

\* a refresh request has been answered for a fixture set in which an account
\* has a current balance and an older one
C13_Witness ==
  /\ pc = "done"
  /\ call.op = "refresh"
  /\ \E k \in DOMAIN mockAccountBalances :
       /\ ~mockAccountBalances[k].isCurrent
       /\ Cardinality(CurrentBalancesOf(mockAccountBalances[k].accountId)) = 1

\* the account carries a linked-item reference: plaidItemId and plaidAccountId,
\* or solanaWalletId
IsLinked(acc) ==
  \/ acc.plaidItemId # NoReference /\ acc.plaidAccountId # NoReference
  \/ acc.solanaWalletId # NoReference

\* the account carries some reference
HasReference(acc) ==
  \/ acc.plaidItemId # NoReference
  \/ acc.plaidAccountId # NoReference
  \/ acc.solanaWalletId # NoReference

\* C14: every account in mockAccounts is either externally linked or manual,
\* never both and never neither: isManual = false implies a linked-item
\* reference (plaidItemId and plaidAccountId, or solanaWalletId) is set, and
\* isManual = true implies none is set.
C14_LinkedOrManual ==
  \A k \in DOMAIN mockAccounts :
    /\ ~mockAccounts[k].isManual => IsLinked(mockAccounts[k])
    /\ mockAccounts[k].isManual => ~HasReference(mockAccounts[k])

\* the shipped fixture set of the API server, or of its web copy, is loaded
ShippedFixtureLoaded ==
  \/ mockAccounts = ApiAccounts /\ mockAccountBalances = ApiBalances
  \/ mockAccounts = WebAccounts /\ mockAccountBalances = WebBalances

\* C15: validateDataConsistency() on the shipped fixtures returns isValid =
\* true with an empty errors list: the recomputed totals match the summary
\* within 1, the last point of mockNetWorthHistory is the summary's current
\* net worth, and the asset-allocation percentages sum to 100 within 1.
C15_ShippedFixturesValid ==
  (pc = "done" /\ call.op = "validateDataConsistency" /\ ShippedFixtureLoaded) =>
    LET v == validateDataConsistency
    IN  /\ v.isValid
        /\ v.errors = << >>
        /\ v.lastHistoricalPoint.netWorth = mockNetWorthSummary.currentNetWorth
        /\ v.totalAllocationPercentage.kind = "finite"
        /\ ~Off(v.totalAllocationPercentage.tenths, 1000, 10)

\* GET /api/validate has been answered for the shipped API fixture set
C15_Witness ==
  /\ pc = "done"
  /\ call.op = "validateDataConsistency"
  /\ mockAccounts = ApiAccounts
  /\ Len(mockNetWorthHistory) = 13


\* C16: whatever the interleaving of concurrent simulator and aggregator
\* invocations, each one returns what it returns when it runs alone, and the
\* module-level values they all read stay as they were at load
C16_ConcurrencyIndependence ==
  /\ \A h \in Handlers :
       frames[h].pc = "returned" =>
         /\ frames[h].op = "generateRealisticHistory" =>
              frames[h].points =
                generateRealisticHistory(frames[h].startDate, frames[h].endDate,
                                         frames[h].granularity,
                                         frames[h].targetEndNetWorth)
         /\ frames[h].op = "calculateCurrentTotals" =>
              frames[h].totals = calculateCurrentTotals(ApiAccounts, ApiBalances)
  /\ mockAccounts = ApiAccounts
  /\ mockAccountBalances = ApiBalances
  /\ currentTotals = calculateCurrentTotals(ApiAccounts, ApiBalances)

\* a monthly series of three points has been returned by an invocation that
\* took steps while another invocation was in the middle of its loop
C16_Witness ==
  \E h \in Handlers :
    /\ frames[h].pc = "returned"
    /\ frames[h].op = "generateRealisticHistory"
    /\ frames[h].granularity = "monthly"
    /\ Len(frames[h].points) >= 3
    /\ frames[h].interleaved


\* the values the next() calls on instance g have returned so far, in order
Outputs(g) ==
  [ k \in 1..Len(instances[g].calls) |->
      << instances[g].calls[k].whole, instances[g].calls[k].hi, instances[g].calls[k].lo >> ]

\* C17: two instances constructed with the same seed return the same value
\* from their k-th call of next(), however their calls are interleaved
C17_SeedReproducibility ==
  \A g1, g2 \in Generators :
    (instances[g1].source # "none" /\ instances[g2].source # "none"
       /\ instances[g1].seed = instances[g2].seed) =>
      \A k \in 1..Len(instances[g1].calls) :
        k <= Len(instances[g2].calls) => Outputs(g1)[k] = Outputs(g2)[k]

\* two instances made from the seed 20241231 have been called twice and three
\* times
C17_Witness ==
  /\ instances[1].source = "seed"
  /\ instances[2].source = "seed"
  /\ instances[1].seed = SeededRandom(20241231)
  /\ instances[2].seed = SeededRandom(20241231)
  /\ Len(instances[1].calls) = 2
  /\ Len(instances[2].calls) = 3


\* the calls made so far on the instance of SpecRandom
CallsMade == instances[1].calls

\* the value a call returned lies in [lower, upper)
ReturnedWithin(c, lower, upper) == lower <= c.whole /\ c.whole < upper

\* every next() so far has returned a value in [0, 1), the state it left
NextInUnitInterval ==
  \A k \in 1..Len(CallsMade) :
    CallsMade[k].op = "next" =>
      /\ ReturnedWithin(CallsMade[k], 0, 1)
      /\ CallsMade[k].hi \in 0..(Limb - 1) /\ CallsMade[k].lo \in 0..(Limb - 1)
      /\ CallsMade[k].hi = CallsMade[k].after.hi /\ CallsMade[k].lo = CallsMade[k].after.lo

\* every range(min, max) so far has returned a value in [min, max)
RangeBelowMax ==
  \A k \in 1..Len(CallsMade) :
    CallsMade[k].op = "range" =>
      ReturnedWithin(CallsMade[k], CallsMade[k].a, CallsMade[k].b)

\* C18: for an integer seed in [0, 2^32), after any number of calls every
\* next() returns the new state over 2^32, a value in [0, 1), and every
\* range(min, max) with min < max returns a value in [min, max)
C18_NextAndRange == NextInUnitInterval /\ RangeBelowMax


\* the LCG state of a SeededRandom object
StateOf(rng) == << rng.hi, rng.lo >>

\* the number of normal() calls among the first k calls
NormalCalls(k) == Cardinality({ j \in 1..k : CallsMade[j].op = "normal" })

\* the last normal() call before call k, or 0
PreviousNormal(k) ==
  LET earlier == { j \in 1..(k - 1) : CallsMade[j].op = "normal" }
  IN  IF earlier = {} THEN 0 ELSE CHOOSE j \in earlier : \A i \in earlier : i <= j

\* C19: on a fresh SeededRandom the odd calls of normal() advance the LCG state
\* by exactly two next() steps and store a spare; the even calls leave the LCG
\* state alone, return the stored spare scaled by their own mean and stdDev,
\* and clear the spare; next() and range() in between advance the state by one
\* step and leave the spare as it is
C19_BoxMullerPairing ==
  \A k \in 1..Len(CallsMade) :
    LET c == CallsMade[k] IN
      /\ (c.op = "normal" /\ NormalCalls(k) % 2 = 1) =>
           /\ ~c.before.hasSpare
           /\ StateOf(c.after) = StateOf(NextState(NextState(c.before)))
           /\ c.after.hasSpare
      /\ (c.op = "normal" /\ NormalCalls(k) % 2 = 0) =>
           /\ StateOf(c.after) = StateOf(c.before)
           /\ c.whole = (CallsMade[PreviousNormal(k)].after.spareNormal * c.b) \div Fine + c.a
           /\ ~c.after.hasSpare
      /\ c.op \in {"next", "range"} =>
           /\ StateOf(c.after) = StateOf(NextState(c.before))
           /\ c.after.hasSpare = c.before.hasSpare
           /\ c.after.spareNormal = c.before.spareNormal

\* normal(), next(), normal() have been called, the two normal() calls with
\* different arguments and a nonzero spare
C19_Witness ==
  /\ Len(CallsMade) = 3
  /\ CallsMade[1].op = "normal"
  /\ CallsMade[2].op = "next"
  /\ CallsMade[3].op = "normal"
  /\ CallsMade[1].a # CallsMade[3].a
  /\ CallsMade[1].after.spareNormal # 0
  /\ CallsMade[3].whole # CallsMade[3].a


\* the instances made by createSeededRandom(date)
FromDate == { g \in Generators : instances[g].source = "date" }

\* the integer a SeededRandom object was constructed with, below 2^31
SeedNumber(rng) == rng.hi * Limb + rng.lo

\* C20: createSeededRandom(date) seeds with year * 10000 + (month + 1) * 100
\* + day, month zero-based: two dates on the same calendar day give the same
\* seed and two dates on different calendar days give different seeds
C20_SeedOfCalendarDay ==
  /\ \A g \in FromDate :
       LET c == Civil(instances[g].date.day)
       IN  SeedNumber(instances[g].seed) = c.year * 10000 + (c.month + 1) * 100 + c.date
  /\ \A g1, g2 \in FromDate :
       (instances[g1].date.day = instances[g2].date.day)
         <=> (instances[g1].seed = instances[g2].seed)

\* one instance made from the first millisecond of 2025-01-01 and one from the
\* last millisecond of 2025-01-08, the same weekday of the same month
C20_Witness ==
  /\ instances[1].source = "date"
  /\ instances[2].source = "date"
  /\ instances[1].date = MkDate(BaseDay + 1, 0)
  /\ instances[2].date = MkDate(BaseDay + 8, MsPerDay - 1)
  /\ instances[1].seed # instances[2].seed


\* C21: for daily, weekly and quarterly granularity every point of a generated
\* series, not only the last, has totalLiabilities equal to the target
\* liability total currentTotals.totalLiabilities
C21_ConstantLiabilities ==
  (Generated /\ call.granularity # "monthly") =>
    \A k \in 1..Len(points) :
      points[k].totalLiabilities = currentTotals.totalLiabilities

\* a series of at least three points has been returned for a granularity
\* other than monthly
C21_Witness ==
  /\ Generated
  /\ call.granularity \in {"daily", "weekly", "quarterly"}
  /\ Len(points) >= 3
  /\ currentTotals.totalLiabilities > 0


\* a monthly series has been returned
MonthlyGenerated == Generated /\ call.granularity = "monthly"

\* the target liability total lies inside the band of the clamp
TargetInBand ==
  /\ LiabilityFloor <= currentTotals.totalLiabilities
  /\ currentTotals.totalLiabilities <= LiabilityCeiling

\* every point but the last has totalLiabilities in [15000, 20000]
NonFinalInBand ==
  \A k \in 1..(Len(points) - 1) :
    /\ LiabilityFloor <= points[k].totalLiabilities
    /\ points[k].totalLiabilities <= LiabilityCeiling

\* |b - a| is at most 0.05% of a plus the jitter bound plus `slack`
StepWithin(a, b, slack) ==
  LET allowed == a * (Scale - LiabilityDecay) + (LiabilityJitter + slack) * Scale
  IN  (b - a) * Scale <= allowed /\ (a - b) * Scale <= allowed

\* C22 as stated: in a monthly series every non-final point's totalLiabilities
\* lies in [15000, 20000] whatever the target liability total, and, when the
\* target is in the band, consecutive non-final points differ by at most the
\* decay (0.05%) plus the jitter bound (100)
C22_MonthlyBandAndStep ==
  MonthlyGenerated =>
    /\ NonFinalInBand
    /\ TargetInBand =>
         \A k \in 1..(Len(points) - 2) :
           StepWithin(points[k].totalLiabilities, points[k + 1].totalLiabilities, 0)

\* C22 amended: in a monthly series every non-final point's totalLiabilities
\* lies in [15000, 20000] whatever the target liability total, and, when the
\* target is in the band, consecutive non-final points differ by at most the
\* decay (0.05%) plus the jitter bound (100) plus 1 for the rounding of the
\* two points
C22_MonthlyBandAndRoundedStep ==
  MonthlyGenerated =>
    /\ NonFinalInBand
    /\ TargetInBand =>
         \A k \in 1..(Len(points) - 2) :
           StepWithin(points[k].totalLiabilities, points[k + 1].totalLiabilities, 1)

\* a monthly series with three non-final points has been returned for a
\* target inside the band, and two consecutive points differ by more than 100
C22_Witness ==
  /\ MonthlyGenerated
  /\ TargetInBand
  /\ Len(points) = 4
  /\ \E k \in 1..2 :
       points[k].totalLiabilities - points[k + 1].totalLiabilities > LiabilityJitter


\* the liability bucket the claim assigns to an account, or "none"
LiabilityBucketOf(acc) ==
  CASE acc.type = "credit" -> "creditCards"
    [] acc.type = "loan" /\ acc.subtype = "mortgage" -> "mortgages"
    [] acc.type = "loan" /\ acc.subtype # "mortgage" -> "loans"
    [] acc.type = "manual_liability" -> "other"
    [] OTHER -> "none"

RECURSIVE BucketTotal(_, _)
\* the current balances of the accounts k.. of mockAccounts assigned to bucket
BucketTotal(bucket, k) ==
  IF k > Len(mockAccounts) THEN 0
  ELSE (IF LiabilityBucketOf(mockAccounts[k]) = bucket
        THEN CurrentBalanceOf(mockAccounts[k]) ELSE 0) + BucketTotal(bucket, k + 1)

\* C23: in calculateLiabilityBreakdown every credit account adds its current
\* balance to creditCards, every loan of subtype "mortgage" to mortgages,
\* every other loan to loans, every manual_liability account to other, each to
\* that one bucket only, and accounts of any other type add to no bucket
C23_LiabilityBuckets ==
  (pc = "done" /\ call.op = "liabilityBreakdown") =>
    /\ liabilityBreakdown.creditCards = BucketTotal("creditCards", 1)
    /\ liabilityBreakdown.mortgages = BucketTotal("mortgages", 1)
    /\ liabilityBreakdown.loans = BucketTotal("loans", 1)
    /\ liabilityBreakdown.other = BucketTotal("other", 1)

\* the liability breakdown has been returned for a mortgage and another loan,
\* each with a current balance
C23_Witness ==
  /\ pc = "done"
  /\ call.op = "liabilityBreakdown"
  /\ liabilityBreakdown.mortgages > 0
  /\ liabilityBreakdown.loans > 0


\* the error is one apiFetch raises for an HTTP 4xx response
IsClientError(error) == \E n \in 400..499 : error = HttpError(n)

\* C24: the retry predicate returns false for every failureCount when the
\* error is an HTTP 4xx error as raised by apiFetch, so a query attempt that
\* fails with a 4xx status is the last attempt and no retry follows it
C24_ClientErrorsNotRetried ==
  /\ \A n \in 400..499, failureCount \in 0..MaxFailures :
       ~retry(failureCount, HttpError(n))
  /\ \A k \in 1..Len(client.errors) :
       IsClientError(client.errors[k]) =>
         k = Len(client.errors) /\ client.status = "error"

\* a query has failed with "HTTP error! status: 404" after two retried
\* network failures
C24_Witness ==
  /\ client.status = "error"
  /\ client.failureCount = 2
  /\ Len(client.errors) = 3
  /\ client.errors[3] = HttpError(404)


\* the message of the error contains "Network" or "fetch"
IsNetworkError(error) ==
  error.isError /\ (Includes(error.message, Network) \/ Includes(error.message, Fetch))

\* the retries of the query so far follow the policy: failure k was retried
\* iff its error is a network error and fewer than 3 failures came before it,
\* and the delay before retry k (counted from 0) is min(1000 * 2^k, 30000) ms
RetriesFollowPolicy ==
  /\ \A k \in 1..Len(client.errors) :
       (k <= Len(client.delays)) <=> (IsNetworkError(client.errors[k]) /\ k - 1 < 3)
  /\ \A k \in 1..Len(client.delays) :
       client.delays[k] = Min(1000 * 2 ^ (k - 1), 30000)
  /\ Len(client.delays) = client.failureCount
  /\ client.failureCount <= 3

\* the query is in the middle of an attempt or of a retry delay
InFlight == client.status \in {"fetching", "waiting"}

RefreshFailed ==
  \/ client.mutation = "error"
  \/ client.mutation = "success" /\ ~Ok(client.response)

\* the refresh call of the mutation has ended and has succeeded
RefreshSucceeded == client.mutation = "success" /\ Ok(client.response)

\* C26: after a successful refresh with section omitted or 'all' the families
\* dashboard, accounts, assets, liabilities and netWorth are all invalidated;
\* after a successful refresh of one named section exactly that section's
\* family is invalidated; when the refresh call fails no query is invalidated
C26_RefreshInvalidation ==
  /\ (RefreshSucceeded /\ client.section \in {"undefined", "all"}) =>
       client.invalidatedNow =
         {"dashboard", "accounts", "assets", "liabilities", "netWorth"}
  /\ (RefreshSucceeded /\ client.section \notin {"undefined", "all"}) =>
       client.invalidatedNow = {client.section}
  /\ RefreshFailed => client.invalidatedNow = {}

\* the fixture loaded is one of the two shipped copies of mock-data
ShippedCopyLoaded ==
  Fixture(mockAccounts, mockAccountBalances)
    \in { Fixture(ApiAccounts, ApiBalances), Fixture(WebAccounts, WebBalances) }

\* no two entries of mockAccountBalances carry the same id
BalanceIdsUnique ==
  \A i, j \in DOMAIN mockAccountBalances :
    mockAccountBalances[i].id = mockAccountBalances[j].id => i = j

\* the currentBalance of the account is defined, belongs to the account and
\* is marked current
CurrentBalanceLinked(acc) ==
  /\ acc.currentBalance # NoBalance
  /\ acc.currentBalance.accountId = acc.id
  /\ acc.currentBalance.isCurrent

\* the values calculateCurrentTotals reads for the account: those of the
\* entries of mockAccountBalances marked current whose accountId is the account's
ValuesReadByTotals(acc) ==
  { OrZero(mockAccountBalances[k].balance) : k \in CurrentBalancesOf(acc.id) }

\* C27: fixture referential integrity. In the API and the web copy of the
\* fixtures the balance ids are unique, every account's currentBalance is
\* defined, has accountId equal to the account's id and isCurrent true, and
\* so the value the breakdowns and the account list use for an account
\* (currentBalance.balance) is the value calculateCurrentTotals reads for it
\* from mockAccountBalances.
C27_FixtureIntegrity ==
  ShippedCopyLoaded =>
    /\ BalanceIdsUnique
    /\ \A k \in DOMAIN mockAccounts :
         /\ CurrentBalanceLinked(mockAccounts[k])
         /\ ValuesReadByTotals(mockAccounts[k]) = { CurrentBalanceOf(mockAccounts[k]) }

\* the seven account types
AccountTypeValues == { ACCOUNT_TYPES[n] : n \in DOMAIN ACCOUNT_TYPES }

\* the deciders of the asset side: calculateCurrentTotals,
\* calculateAssetBreakdown, isAssetAccount and the useAssetAccounts filter
AssetDeciders(type) ==
  << type \in TotalsAssetTypes, type \in BreakdownAssetTypes, isAssetAccount(type),
     Len(useAssetAccounts(<< [type |-> type] >>)) = 1 >>

\* the deciders of the liability side: calculateCurrentTotals,
\* calculateLiabilityBreakdown, isLiabilityAccount and the
\* useLiabilityAccounts filter
LiabilityDeciders(type) ==
  << type \in TotalsLiabilityTypes, type \in BreakdownLiabilityTypes,
     isLiabilityAccount(type), Len(useLiabilityAccounts(<< [type |-> type] >>)) = 1 >>

\* every decider of the tuple gives the same answer
Unanimous(deciders) == \A i, j \in DOMAIN deciders : deciders[i] = deciders[j]

\* C28: asset/liability classification is total, disjoint and the same
\* everywhere: each of the seven account types, and so the type of every
\* loaded account, is classified as exactly one of asset or liability, and
\* calculateCurrentTotals, the breakdowns, isAssetAccount / isLiabilityAccount
\* and the useAssetAccounts / useLiabilityAccounts filters agree on it.
C28_ClassificationAgrees ==
  \A type \in AccountTypeValues \cup { mockAccounts[k].type : k \in DOMAIN mockAccounts } :
    /\ Unanimous(AssetDeciders(type))
    /\ Unanimous(LiabilityDeciders(type))
    /\ AssetDeciders(type)[1] # LiabilityDeciders(type)[1]

\* a per-asset series of getMockAssetPerformance() has been returned
AssetSeriesReturned ==
  pc = "done" /\ performance.type \in AssetTypes /\ performance.data # << >>

\* the value the series of the asset type is meant to end at, in dollars
EndingValue(assetType) ==
  IF assetType = "cash" THEN CashTarget ELSE AssetTargets[assetType]

\* C29: every per-asset series returned by getMockAssetPerformance ends, at
\* its last point, with netWorth equal to the asset's target ending value and
\* date equal to the current date.
C29_AssetSeriesEndAtTarget ==
  AssetSeriesReturned =>
    LET last == performance.data[Len(performance.data)]
    IN  /\ last.netWorth = EndingValue(performance.type)
        /\ last.date = performance.currentDate

\* the same for the series that copy the points of generateRealisticHistory
PlainSeriesEndAtTarget ==
  (AssetSeriesReturned /\ performance.type \in PlainAssets) =>
    LET last == performance.data[Len(performance.data)]
    IN  /\ last.netWorth = EndingValue(performance.type)
        /\ last.date = performance.currentDate

\* the cash series ends at its target value
CashSeriesEndsAtTarget ==
  (AssetSeriesReturned /\ performance.type = "cash") =>
    performance.data[Len(performance.data)].netWorth = CashTarget

\* the calls made on instance g, each with the object before and after it
CallsOf(g) == instances[g].calls

\* the largest double below which every integer is exact is 2 ** 53: the
\* bound on the part of an intermediate value above its low 32 bits
ExactTop == 2 ^ (53 - 32)

\* the call went from a state in [0, 2 ** 32) through an intermediate value
\* below 2 ** 53 to the state that value leaves modulo 2 ** 32
ExactStep(c) ==
  /\ c.before.hi \in 0..(Limb - 1) /\ c.before.lo \in 0..(Limb - 1)
  /\ Intermediate(c.before).top < ExactTop
  /\ c.after.hi = Intermediate(c.before).hi
  /\ c.after.lo = Intermediate(c.before).lo

\* C30: LCG exactness. From every seed in [0, 2 ** 32) the intermediate value
\* seed * 1664525 + 1013904223 stays below 2 ** 53, so after any number of
\* next() calls the state is the exact integer in [0, 2 ** 32); and for a
\* date-derived seed the first next() output is strictly positive, so the
\* normal() call made on a fresh generator never takes the logarithm of 0.
C30_LcgExact ==
  \A g \in Generators :
    /\ \A k \in DOMAIN CallsOf(g) : ExactStep(CallsOf(g)[k])
    /\ (instances[g].source = "date" /\ CallsOf(g) # << >>) =>
         /\ CallsOf(g)[1].hi > 0 \/ CallsOf(g)[1].lo > 0
         /\ normal(instances[g].seed, 0, VolatilityPerInterval("monthly")).finite

\* a date-seeded generator has returned its first next(), and next() has
\* been called on the largest state, 2 ** 32 - 1
C30_Witness ==
  /\ \E g \in Generators : instances[g].source = "date" /\ CallsOf(g) # << >>
  /\ \E g \in Generators : \E k \in DOMAIN CallsOf(g) :
       CallsOf(g)[k].before.hi = Limb - 1 /\ CallsOf(g)[k].before.lo = Limb - 1

====
